---- MODULE Spec2Model ----
(***************************************************************************)
(* CollisionMatrix (phono3py/phonon3/collision_matrix.py): the assembler   *)
(* of the collision matrix of the linearized phonon Boltzmann equation.    *)
(*                                                                         *)
(* Arrays are functions over 0-based index ranges.  A tensor is a record   *)
(* [shape, data] whose data maps index tuples to numbers.  Real numbers    *)
(* are fixed-point integers; 1.0 is the integer One.  Division rounds      *)
(* toward zero, so a small quotient underflows to 0 as a float does, and   *)
(* 1.0 / 0 is the value Inf.                                               *)
(*                                                                         *)
(* load() and set_dataset_and_force_constants (phono3py/cui/load.py) with  *)
(* parse_forces (phono3py/cui/create_force_constants.py) are modelled in   *)
(* the second half, under the specification SpecLoad.                      *)
(***************************************************************************)
EXTENDS Integers, Sequences, FiniteSets, TLC

\* ---------------------------------------------------------------- bounds
MeshN == 2            \* the mesh is MeshN x 2 x 1
NumBand == 2          \* bands per grid point
MaxFreq == 2          \* frequencies range over -1 .. MaxFreq
MaxStrength == 2      \* scattering strengths range over 0 .. MaxStrength
MaxGiven == 2         \* source arguments and files supplied to one load()

\* ------------------------------------------------------ program constants
THzToEv == 48         \* phonopy.units; THzToEv / (2 Kb) is about 24 K/THz
Kb == 1
One == 12             \* the literal 1.0 in fixed point

\* An optional value is None or Some(v); Val reads v.
None == <<>>
Some(v) == <<v>>
Val(o) == o[1]
Inf == 1000000        \* the float inf, above every finite value of the model

Range(n) == 0 .. (n - 1)

Temperatures == {-24, 0, 24, 48}
\* <<cutoff frequency, unit conversion, number of band indices>>
Settings == {<<0, 1, 1>>, <<1, 2, NumBand>>}
Langs == {"C", "Py"}
\* the grid points a caller binds; the provider's triplet map of the last
\* one sends a mesh point to a point that is not a representative
GridPoints == {0, 1, 2}

\* ------------------------------------------------------------ arithmetic
\* the sum of the first n entries of a vector
RECURSIVE SumTo(_, _)
SumTo(f, n) == IF n = 0 THEN 0 ELSE f[n - 1] + SumTo(f, n - 1)

\* vec.sum()
SumVec(f) == SumTo(f, Cardinality(DOMAIN f))

\* np.prod over a tuple
RECURSIVE Prod(_)
Prod(t) == IF t = <<>> THEN 1 ELSE Head(t) * Prod(Tail(t))

Abs(a) == IF a < 0 THEN -a ELSE a

\* a / b on floats: rounds toward zero; x / 0 is inf with the sign of x
Sign(a) == IF a < 0 THEN -1 ELSE IF a = 0 THEN 0 ELSE 1
Quot(a, b) == IF b = 0 THEN Sign(a) * Inf
              ELSE Sign(a) * Sign(b) * (Abs(a) \div Abs(b))

\* np.sinh: odd, increasing, sinh(0) = 0 (x + x^3/6)
Sinh(x) == IF Abs(x) >= 100 THEN Sign(x) * Inf
           ELSE Sign(x) * (Abs(x) + (Abs(x) * Abs(x) * Abs(x)) \div 6)

\* 1.0 / s elementwise: inf for s = 0 (numpy warns and carries on)
Recip(s) == IF s = 0 THEN Inf ELSE Sign(s) * (One \div Abs(s))

\* np.zeros(shape)
IndexTuples(shape) ==
    IF Len(shape) = 1 THEN {<<a>> : a \in Range(shape[1])}
    ELSE IF Len(shape) = 3
    THEN Range(shape[1]) \X Range(shape[2]) \X Range(shape[3])
    ELSE IF Len(shape) = 4
    THEN Range(shape[1]) \X Range(shape[2]) \X Range(shape[3])
         \X Range(shape[4])
    ELSE Range(shape[1]) \X Range(shape[2]) \X Range(shape[3])
         \X Range(shape[4]) \X Range(shape[5])

Zeros(shape) == [shape |-> shape, data |-> [idx \in IndexTuples(shape) |-> 0]]

\* 3x3 matrices: functions over Range(3) \X Range(3)
Mat3(rows) == [ac \in Range(3) \X Range(3) |-> rows[ac[1] + 1][ac[2] + 1]]
MatMul(A, B) ==
    [ac \in Range(3) \X Range(3) |->
        A[<<ac[1], 0>>] * B[<<0, ac[2]>>] + A[<<ac[1], 1>>] * B[<<1, ac[2]>>]
        + A[<<ac[1], 2>>] * B[<<2, ac[2]>>]]
\* np.linalg.inv of a 3x3 matrix: adjugate over determinant
Cofactor(A, i, j) ==
    A[<<(i + 1) % 3, (j + 1) % 3>>] * A[<<(i + 2) % 3, (j + 2) % 3>>]
    - A[<<(i + 1) % 3, (j + 2) % 3>>] * A[<<(i + 2) % 3, (j + 1) % 3>>]
Det(A) == A[<<0, 0>>] * Cofactor(A, 0, 0) + A[<<0, 1>>] * Cofactor(A, 0, 1)
          + A[<<0, 2>>] * Cofactor(A, 0, 2)
Inv3(A) ==
    [ac \in Range(3) \X Range(3) |->
        IF Det(A) > 0 THEN Quot(Cofactor(A, ac[2], ac[1]), Det(A))
        ELSE Quot(-Cofactor(A, ac[2], ac[1]), -Det(A))]

\* phonopy similarity_transformation(rot, mat) = rot . mat . rot^-1
similarity_transformation(rot, mat) == MatMul(rot, MatMul(mat, Inv3(rot)))

\* -------------------------------------------------------------- inputs
\* The primitive cell and the point group handed to the constructor.
PrimitiveCell == Mat3(<< <<1, 1, 0>>, <<0, 1, 0>>, <<0, 0, 1>> >>)
Identity3 == Mat3(<< <<1, 0, 0>>, <<0, 1, 0>>, <<0, 0, 1>> >>)
MirrorXY == Mat3(<< <<0, 1, 0>>, <<1, 0, 0>>, <<0, 0, 1>> >>)
\* a list as a 0-based array
Array(seq) == [i \in Range(Len(seq)) |-> seq[i + 1]]
\* the point group: the identity and the mirror that swaps x and y
PointOperations == Array(<<Identity3, MirrorXY>>)
Mesh == <<MeshN, 2, 1>>
IrGridPoints == [i \in Range(MeshN) |-> 2 * i]
RotGridPoints ==
    [i \in Range(MeshN) |->
        [r \in DOMAIN PointOperations |-> (2 * i + r) % Prod(Mesh)]]
\* __init__: the point operations in Cartesian coordinates
RotationsCartesian ==
    LET rec_lat == Inv3(PrimitiveCell)
    IN [r \in DOMAIN PointOperations |->
           similarity_transformation(rec_lat, PointOperations[r])]

\* ------------------------------------------- the scattering provider (pp)
\* Interaction: what it returns once set_grid_point(p) has been called on it.
Representatives(tmap) == {i \in DOMAIN tmap : tmap[i] = i}
NthRepresentative(tmap, t) ==
    CHOOSE i \in Representatives(tmap) :
        Cardinality({m \in Representatives(tmap) : m < i}) = t
TripletMapOf(p) ==
    [i \in Range(Prod(Mesh)) |->
        IF p = 2 /\ i = Prod(Mesh) - 1 THEN 1
        ELSE IF p % 2 = 0 THEN i - (i % 2)
        ELSE IF i = Prod(Mesh) - 1 THEN 0 ELSE i]
IrMapOf(p) ==
    [i \in Range(Prod(Mesh)) |-> IF p % 2 = 0 THEN 0 ELSE i - (i % 2)]
NumTripletsOf(p) == Cardinality(Representatives(TripletMapOf(p)))
TripletsOf(p) ==
    [t \in Range(NumTripletsOf(p)) |->
        LET rep == NthRepresentative(TripletMapOf(p), t)
        IN [c \in Range(3) |->
               IF c = 0 THEN p
               ELSE IF c = 1 THEN rep
               ELSE (2 * Prod(Mesh) - p - rep) % Prod(Mesh)]]
WeightsOf(p) ==
    [t \in Range(NumTripletsOf(p)) |->
        Cardinality({i \in Range(Prod(Mesh)) :
            TripletMapOf(p)[i] = NthRepresentative(TripletMapOf(p), t)})]
FrequenciesOf(p) ==
    [i \in Range(Prod(Mesh)) |->
        [b \in Range(NumBand) |-> ((i + 2 * b + p) % (MaxFreq + 2)) - 1]]
StrengthOf(p, nb0) ==
    LET shape == <<NumTripletsOf(p), nb0, NumBand, NumBand>>
    IN [shape |-> shape,
        data |-> [idx \in IndexTuples(shape) |->
            (idx[1] + idx[2] + 2 * idx[3] + idx[4] + p) % (MaxStrength + 1)]]
WeightsGOf(p, nb0) ==
    LET shape == <<3, NumTripletsOf(p), nb0, NumBand, NumBand>>
    IN [shape |-> shape,
        data |-> [idx \in IndexTuples(shape) |->
            (idx[1] + idx[2] + 2 * idx[3] + idx[4] + idx[5] + p) % 3]]

\* The provider's answers, tabulated per grid point (and per number of
\* band indices for the two tensors).
ProviderTable ==
    [p \in GridPoints |->
        [triplets |-> TripletsOf(p),
         weights |-> WeightsOf(p),
         triplet_map |-> TripletMapOf(p),
         ir_map |-> IrMapOf(p),
         frequencies |-> FrequenciesOf(p),
         strength |-> [nb0 \in 1 .. NumBand |-> StrengthOf(p, nb0)],
         g |-> [nb0 \in 1 .. NumBand |-> WeightsGOf(p, nb0)]]]
ProviderTriplets(p) == ProviderTable[p].triplets
ProviderWeights(p) == ProviderTable[p].weights
ProviderTripletMap(p) == ProviderTable[p].triplet_map
ProviderIrMap(p) == ProviderTable[p].ir_map
ProviderFrequencies(p) == ProviderTable[p].frequencies
ProviderStrength(p, nb0) == ProviderTable[p].strength[nb0]
ProviderWeightsG(p, nb0) == ProviderTable[p].g[nb0]

\* ----------------------------------------------------------------- state
VARIABLES
    pp_gp,                  \* self._pp: the grid point the provider is set to
    grid_point,             \* self._grid_point
    pp_strength,            \* self._pp_strength
    g,                      \* self._g
    triplets_at_q,          \* self._triplets_at_q
    weights_at_q,           \* self._weights_at_q
    triplets_map_at_q,      \* self._triplets_map_at_q
    ir_map_at_q,            \* self._ir_map_at_q
    frequencies,            \* self._frequencies
    imag_self_energy,       \* self._imag_self_energy
    collision_matrix,       \* self._collision_matrix
    temperature,            \* self._temperature
    lang,                   \* self._lang
    is_reducible_collision_matrix,
    cutoff_frequency,       \* self._cutoff_frequency
    unit_conversion,        \* self._unit_conversion
    band_indices,           \* self._band_indices
    mesh,                   \* self._mesh
    ir_grid_points,         \* self._ir_grid_points
    rot_grid_points,        \* self._rot_grid_points
    rotations_cartesian,    \* self._rotations_cartesian
    last_call,              \* the method called last, and how it ended
    trace,                  \* what the last run() invoked, in order
    pending,                \* loop positions an assembly under way has
                            \* yet to visit
    out_of_order,           \* whether the last assembly left the order of
                            \* the routine's loops
    load_args,              \* cui/load.py: the arguments of a call of load()
                            \* and the files of the current directory
    load_result,            \* cui/load.py: what that call of load() left
    parse_phono3py,         \* the Phono3py instance given to parse_forces,
                            \* and the forces file at hand
    parse_yaml,             \* the Phono3pyYaml object given to parse_forces
    parse_args,             \* the arguments of the last call of parse_forces
    parse_result,           \* how that call ended and the dataset it returned
    parse_calls             \* the calls of parse_forces made so far

config == <<temperature, lang, is_reducible_collision_matrix, cutoff_frequency,
            unit_conversion, band_indices, mesh, ir_grid_points,
            rot_grid_points, rotations_cartesian>>
cache == <<triplets_at_q, weights_at_q, triplets_map_at_q, ir_map_at_q,
           frequencies>>
parse_vars == <<parse_phono3py, parse_yaml, parse_args, parse_result, parse_calls>>
load_vars == <<load_args, load_result, parse_vars>>
vars == <<pp_gp, grid_point, pp_strength, g, cache, imag_self_energy,
          collision_matrix, config, last_call, trace, pending, out_of_order,
          load_vars>>

\* CollisionMatrix.__init__
Init ==
    /\ pp_gp = None
    /\ grid_point = None
    /\ pp_strength = None
    /\ g = None
    /\ triplets_at_q = None
    /\ weights_at_q = None
    /\ triplets_map_at_q = None
    /\ ir_map_at_q = None
    /\ frequencies = None
    /\ imag_self_energy = None
    /\ collision_matrix = None
    /\ temperature \in Temperatures
    /\ lang \in Langs
    /\ is_reducible_collision_matrix \in BOOLEAN
    /\ \E setting \in Settings :
          /\ cutoff_frequency = setting[1]
          /\ unit_conversion = setting[2]
          /\ band_indices = [j \in Range(setting[3]) |-> j]
    /\ mesh = Mesh
    /\ IF is_reducible_collision_matrix
       THEN /\ ir_grid_points = None
            /\ rot_grid_points = None
            /\ rotations_cartesian = None
       ELSE /\ ir_grid_points = Some(IrGridPoints)
            /\ rot_grid_points = Some(RotGridPoints)
            /\ rotations_cartesian = Some(RotationsCartesian)
    /\ last_call = <<"init", "ok">>
    /\ trace = <<>>
    /\ pending = {}
    /\ out_of_order = FALSE
    /\ load_args = None
    /\ load_result = None
    /\ parse_phono3py = None
    /\ parse_yaml = None
    /\ parse_args = None
    /\ parse_result = None
    /\ parse_calls = 0

\* SetGridPoint skipping line 124 (self._pp_strength = None) when the grid
\* point is the one already bound
SetGridPointKeepingStrength(gp) ==
    /\ pp_gp' = Some(gp)
    /\ pp_strength' = IF pp_gp = Some(gp) THEN pp_strength ELSE None
    /\ triplets_at_q' = Some(ProviderTriplets(gp))
    /\ weights_at_q' = Some(ProviderWeights(gp))
    /\ triplets_map_at_q' = Some(ProviderTripletMap(gp))
    /\ ir_map_at_q' = Some(ProviderIrMap(gp))
    /\ grid_point' = Some(gp)
    /\ frequencies' = Some(ProviderFrequencies(gp))
    /\ last_call' = <<"set_grid_point", "ok">>
    /\ UNCHANGED <<load_vars, g, imag_self_energy, collision_matrix, config,
                   trace, pending, out_of_order>>

\* CollisionMatrix.set_grid_point(grid_point) with a grid point
SetGridPoint(gp) ==
    /\ pp_gp' = Some(gp)
    /\ pp_strength' = None
    /\ triplets_at_q' = Some(ProviderTriplets(gp))
    /\ weights_at_q' = Some(ProviderWeights(gp))
    /\ triplets_map_at_q' = Some(ProviderTripletMap(gp))
    /\ ir_map_at_q' = Some(ProviderIrMap(gp))
    /\ grid_point' = Some(gp)
    /\ frequencies' = Some(ProviderFrequencies(gp))
    /\ last_call' = <<"set_grid_point", "ok">>
    /\ UNCHANGED <<load_vars, g, imag_self_energy, collision_matrix, config, trace,
                   pending, out_of_order>>

\* SetGridPointNone that also drops the cached strength
SetGridPointNoneClearing ==
    /\ grid_point' = None
    /\ pp_strength' = None
    /\ last_call' = <<"set_grid_point_none", "ok">>
    /\ UNCHANGED <<load_vars, pp_gp, g, cache, imag_self_energy, collision_matrix,
                   config, trace, pending, out_of_order>>

\* CollisionMatrix.set_grid_point(None)
SetGridPointNone ==
    /\ grid_point' = None
    /\ last_call' = <<"set_grid_point_none", "ok">>
    /\ UNCHANGED <<load_vars, pp_gp, pp_strength, g, cache, imag_self_energy,
                   collision_matrix, config, trace, pending, out_of_order>>

\* ImagSelfEnergy.set_integration_weights: the smearing weights of the
\* provider's grid point
SetIntegrationWeights ==
    /\ pp_gp # None
    /\ g' = Some(ProviderWeightsG(Val(pp_gp), Cardinality(DOMAIN band_indices)))
    /\ last_call' = <<"set_integration_weights", "ok">>
    /\ UNCHANGED <<load_vars, pp_gp, grid_point, pp_strength, cache, imag_self_energy,
                   collision_matrix, config, trace, pending, out_of_order>>

\* ---------------------------------------------- helpers of the assembly
Size(arr) == Cardinality(DOMAIN arr)
Min(a, b) == IF a <= b THEN a ELSE b

\* Gp2tpLoop that counts every mesh point, representative or not
RECURSIVE Gp2tpLoopCountingAll(_, _, _, _)
Gp2tpLoopCountingAll(i, count, gp2tp_map, tmap) ==
    IF i = Size(tmap) THEN gp2tp_map
    ELSE IF i = tmap[i]
    THEN Gp2tpLoopCountingAll(i + 1, count + 1, gp2tp_map @@ (i :> count),
                              tmap)
    ELSE Gp2tpLoopCountingAll(i + 1, count + 1, gp2tp_map, tmap)

\* _get_gp2tp_map: the loop over enumerate(self._triplets_map_at_q)
RECURSIVE Gp2tpLoop(_, _, _, _)
Gp2tpLoop(i, count, gp2tp_map, tmap) ==
    IF i = Size(tmap) THEN gp2tp_map
    ELSE IF i = tmap[i]
    THEN Gp2tpLoop(i + 1, count + 1, gp2tp_map @@ (i :> count), tmap)
    ELSE Gp2tpLoop(i + 1, count, gp2tp_map, tmap)

\* GetGp2tpMap whose loop starts at the second mesh point
GetGp2tpMapFromSecond == Gp2tpLoop(1, 0, <<>>, Val(triplets_map_at_q))

\* _get_gp2tp_map
GetGp2tpMap == Gp2tpLoop(0, 0, <<>>, Val(triplets_map_at_q))

\* SinhOrSentinel with freqs >= cutoff for freqs > cutoff
SinhOrSentinelAtCutoff(freqs) ==
    [b \in DOMAIN freqs |->
        IF freqs[b] >= cutoff_frequency
        THEN Sinh(Quot(freqs[b] * THzToEv, 2 * Kb * temperature))
        ELSE -1]

\* _get_inv_sinh, line 229: np.where(freqs > cutoff, np.sinh(...), -1.0)
SinhOrSentinel(freqs) ==
    [b \in DOMAIN freqs |->
        IF freqs[b] > cutoff_frequency
        THEN Sinh(Quot(freqs[b] * THzToEv, 2 * Kb * temperature))
        ELSE -1]

\* InvertPositive with sinh >= 0 for sinh > 0
InvertNonNegative(sinh) ==
    LET reciprocal == [b \in DOMAIN sinh |-> Recip(sinh[b])]
    IN [b \in DOMAIN sinh |-> IF sinh[b] >= 0 THEN reciprocal[b] ELSE 0]

\* _get_inv_sinh, line 233: np.where(sinh > 0, 1.0 / sinh, 0)
InvertPositive(sinh) ==
    LET reciprocal == [b \in DOMAIN sinh |-> Recip(sinh[b])]
    IN [b \in DOMAIN sinh |-> IF sinh[b] > 0 THEN reciprocal[b] ELSE 0]

\* CompanionGridPoint with the two branches exchanged
CompanionGridPointSwapped(gp, gp2tp_map) ==
    LET ti == gp2tp_map[Val(triplets_map_at_q)[gp]]
        tp == Val(triplets_at_q)[ti]
    IN IF Val(triplets_map_at_q)[gp] = Val(ir_map_at_q)[gp]
       THEN tp[1] ELSE tp[2]

\* _get_inv_sinh, lines 222-227: the grid point whose frequencies are used
CompanionGridPoint(gp, gp2tp_map) ==
    LET ti == gp2tp_map[Val(triplets_map_at_q)[gp]]
        tp == Val(triplets_at_q)[ti]
    IN IF Val(triplets_map_at_q)[gp] = Val(ir_map_at_q)[gp]
       THEN tp[2] ELSE tp[1]

GetInvSinh(gp, gp2tp_map) ==
    LET gp2 == CompanionGridPoint(gp, gp2tp_map)
        freqs == Val(frequencies)[gp2]
    IN InvertPositive(SinhOrSentinel(freqs))

\* Collision without line 192 / 208 (collision *= self._unit_conversion)
CollisionUnscaled(strength, ti, j, k, inv_sinh) ==
    LET terms == [b \in DOMAIN inv_sinh |->
                     strength.data[<<ti, j, k, b>>] * inv_sinh[b]
                     * Val(g).data[<<2, ti, j, k, b>>]]
    IN SumVec(terms)

\* lines 189-192 and 205-208: the scalar added for one (band0, band) pair
Collision(strength, ti, j, k, inv_sinh) ==
    LET terms == [b \in DOMAIN inv_sinh |->
                     strength.data[<<ti, j, k, b>>] * inv_sinh[b]
                     * Val(g).data[<<2, ti, j, k, b>>]]
    IN SumVec(terms) * unit_conversion

\* ti indexes both tensors
TripletInRange(strength, ti) ==
    /\ ti \in Range(strength.shape[1])
    /\ ti \in Range(Val(g).shape[2])

\* PyReducibleStep adding into the row of the representative of mesh point i
PyReducibleStepAtRepresentative(i, data, strength, gp2tp_map) ==
    IF Val(triplets_map_at_q)[i] \notin DOMAIN gp2tp_map
    THEN [data |-> data, err |-> "KeyError"]
    ELSE
        LET ti == gp2tp_map[Val(triplets_map_at_q)[i]]
            inv_sinh == GetInvSinh(i, gp2tp_map)
            collision == [jk \in Range(strength.shape[2])
                                 \X Range(strength.shape[3]) |->
                             Collision(strength, ti, jk[1], jk[2], inv_sinh)]
        IN IF ~TripletInRange(strength, ti)
           THEN [data |-> data, err |-> "IndexError"]
           ELSE [data |-> [idx \in DOMAIN data |->
                              IF idx[2] = Val(triplets_map_at_q)[i]
                              THEN data[idx] + collision[<<idx[1], idx[3]>>]
                              ELSE data[idx]],
                 err |-> "ok"]

\* _run_py_reducible_collision_matrix, lines 202-209: mesh point i
PyReducibleStep(i, data, strength, gp2tp_map) ==
    IF Val(triplets_map_at_q)[i] \notin DOMAIN gp2tp_map
    THEN [data |-> data, err |-> "KeyError"]
    ELSE
        LET ti == gp2tp_map[Val(triplets_map_at_q)[i]]
            inv_sinh == GetInvSinh(i, gp2tp_map)
            collision == [jk \in Range(strength.shape[2])
                                 \X Range(strength.shape[3]) |->
                             Collision(strength, ti, jk[1], jk[2], inv_sinh)]
        IN IF ~TripletInRange(strength, ti)
           THEN [data |-> data, err |-> "IndexError"]
           ELSE [data |-> [idx \in DOMAIN data |->
                              IF idx[2] = i
                              THEN data[idx] + collision[<<idx[1], idx[3]>>]
                              ELSE data[idx]],
                 err |-> "ok"]

\* PyReducibleLoop that stops one mesh point early
RECURSIVE PyReducibleLoopShort(_, _, _, _)
PyReducibleLoopShort(i, data, strength, gp2tp_map) ==
    IF i >= Prod(mesh) - 1 THEN [data |-> data, err |-> "ok"]
    ELSE LET step == PyReducibleStep(i, data, strength, gp2tp_map)
         IN IF step.err # "ok" THEN step
            ELSE PyReducibleLoopShort(i + 1, step.data, strength, gp2tp_map)

\* _run_py_reducible_collision_matrix, line 201: the loop from mesh point
\* i on
RECURSIVE PyReducibleLoop(_, _, _, _)
PyReducibleLoop(i, data, strength, gp2tp_map) ==
    IF i = Prod(mesh) THEN [data |-> data, err |-> "ok"]
    ELSE LET step == PyReducibleStep(i, data, strength, gp2tp_map)
         IN IF step.err # "ok" THEN step
            ELSE PyReducibleLoop(i + 1, step.data, strength, gp2tp_map)

RunPyReducibleCollisionMatrix(zero, strength) ==
    PyReducibleLoop(0, zero.data, strength, GetGp2tpMap)

\* PyStep with the rotation matrix transposed
PyStepTransposed(i, z, data, strength, gp2tp_map) ==
    LET r == Val(rotations_cartesian)[z]
        r_gp == Val(rot_grid_points)[i][z]
    IN IF Val(triplets_map_at_q)[r_gp] \notin DOMAIN gp2tp_map
       THEN [data |-> data, err |-> "KeyError"]
       ELSE
           LET ti == gp2tp_map[Val(triplets_map_at_q)[r_gp]]
               inv_sinh == GetInvSinh(r_gp, gp2tp_map)
               collision ==
                   [jk \in Range(strength.shape[2])
                           \X Range(strength.shape[3]) |->
                       Collision(strength, ti, jk[1], jk[2], inv_sinh)]
           IN IF ~TripletInRange(strength, ti)
              THEN [data |-> data, err |-> "IndexError"]
              ELSE [data |-> [idx \in DOMAIN data |->
                                 IF idx[3] = i
                                 THEN data[idx]
                                      + collision[<<idx[1], idx[4]>>]
                                        * r[<<idx[5], idx[2]>>]
                                 ELSE data[idx]],
                    err |-> "ok"]

\* PyStep with = for += on line 193
PyStepAssign(i, z, data, strength, gp2tp_map) ==
    LET r == Val(rotations_cartesian)[z]
        r_gp == Val(rot_grid_points)[i][z]
    IN IF Val(triplets_map_at_q)[r_gp] \notin DOMAIN gp2tp_map
       THEN [data |-> data, err |-> "KeyError"]
       ELSE
           LET ti == gp2tp_map[Val(triplets_map_at_q)[r_gp]]
               inv_sinh == GetInvSinh(r_gp, gp2tp_map)
               collision ==
                   [jk \in Range(strength.shape[2])
                           \X Range(strength.shape[3]) |->
                       Collision(strength, ti, jk[1], jk[2], inv_sinh)]
           IN IF ~TripletInRange(strength, ti)
              THEN [data |-> data, err |-> "IndexError"]
              ELSE [data |-> [idx \in DOMAIN data |->
                                 IF idx[3] = i
                                 THEN collision[<<idx[1], idx[4]>>]
                                      * r[<<idx[2], idx[5]>>]
                                 ELSE data[idx]],
                    err |-> "ok"]

\* _run_py_collision_matrix, lines 184-193: irreducible point i and pair z
\* of zip(self._rotations_cartesian, r_gps)
PyStep(i, z, data, strength, gp2tp_map) ==
    LET r == Val(rotations_cartesian)[z]
        r_gp == Val(rot_grid_points)[i][z]
    IN IF Val(triplets_map_at_q)[r_gp] \notin DOMAIN gp2tp_map
       THEN [data |-> data, err |-> "KeyError"]
       ELSE
           LET ti == gp2tp_map[Val(triplets_map_at_q)[r_gp]]
               inv_sinh == GetInvSinh(r_gp, gp2tp_map)
               collision ==
                   [jk \in Range(strength.shape[2])
                           \X Range(strength.shape[3]) |->
                       Collision(strength, ti, jk[1], jk[2], inv_sinh)]
           IN IF ~TripletInRange(strength, ti)
              THEN [data |-> data, err |-> "IndexError"]
              ELSE [data |-> [idx \in DOMAIN data |->
                                 IF idx[3] = i
                                 THEN data[idx]
                                      + collision[<<idx[1], idx[4]>>]
                                        * r[<<idx[2], idx[5]>>]
                                 ELSE data[idx]],
                    err |-> "ok"]

\* zip(self._rotations_cartesian, r_gps) stops at the shorter of the two
ZipLength(i) ==
    Min(Size(Val(rotations_cartesian)), Size(Val(rot_grid_points)[i]))

\* _run_py_collision_matrix, lines 181-183: the loops from irreducible
\* point i and pair z on
RECURSIVE PyLoop(_, _, _, _, _)
PyLoop(i, z, data, strength, gp2tp_map) ==
    IF i = Size(Val(ir_grid_points)) THEN [data |-> data, err |-> "ok"]
    ELSE IF z = ZipLength(i) THEN PyLoop(i + 1, 0, data, strength, gp2tp_map)
    ELSE LET step == PyStep(i, z, data, strength, gp2tp_map)
         IN IF step.err # "ok" THEN step
            ELSE PyLoop(i, z + 1, step.data, strength, gp2tp_map)

RunPyCollisionMatrix(zero, strength) ==
    PyLoop(0, 0, zero.data, strength, GetGp2tpMap)

\* phono3c.reducible_collision_matrix and phono3c.collision_matrix: the
\* accelerated routines, as sections 4.2 and 4.3 of the specification
\* describe the sums they compute
DenseMap ==
    [m \in Representatives(Val(triplets_map_at_q)) |->
        Cardinality({n \in Representatives(Val(triplets_map_at_q)) : n < m})]

\* the grid points whose representative has a triplet
HasTriplet(gp) == Val(triplets_map_at_q)[gp] \in DOMAIN DenseMap

\* the scalar of every (grid point, band0, band)
CollisionAt(strength) ==
    LET inv_sinh == [gp \in {p \in DOMAIN Val(triplets_map_at_q) :
                                HasTriplet(p)} |->
                        GetInvSinh(gp, DenseMap)]
    IN [gjk \in {p \in DOMAIN Val(triplets_map_at_q) : HasTriplet(p)}
                \X Range(strength.shape[2]) \X Range(strength.shape[3]) |->
           Collision(strength, DenseMap[Val(triplets_map_at_q)[gjk[1]]],
                     gjk[2], gjk[3], inv_sinh[gjk[1]])]

RunCReducibleCollisionMatrix(zero, strength) ==
    LET collision == CollisionAt(strength)
    IN IF \E gp \in DOMAIN Val(triplets_map_at_q) : ~HasTriplet(gp)
       THEN [data |-> zero.data, err |-> "error"]
       ELSE
       [data |-> [idx \in DOMAIN zero.data |->
                     zero.data[idx] + collision[<<idx[2], idx[1], idx[3]>>]],
        err |-> "ok"]

RunCCollisionMatrix(zero, strength) ==
    LET collision == CollisionAt(strength)
    IN IF \E i \in DOMAIN Val(rot_grid_points) :
             \E z \in DOMAIN Val(rot_grid_points)[i] :
                 ~HasTriplet(Val(rot_grid_points)[i][z])
       THEN [data |-> zero.data, err |-> "error"]
       ELSE
       [data |-> [idx \in DOMAIN zero.data |->
                     LET r_gps == Val(rot_grid_points)[idx[3]]
                         terms == [z \in DOMAIN r_gps |->
                                      collision[<<r_gps[z], idx[1], idx[4]>>]
                                      * Val(rotations_cartesian)[z]
                                           [<<idx[2], idx[5]>>]]
                     IN zero.data[idx] + SumVec(terms)],
        err |-> "ok"]

\* ImagSelfEnergy._run_with_band_indices (section 4.4): the strengths
\* weighted by one smearing kind and reduced to one number per band0; it
\* needs the integration weights, of the shape of the strengths
CanRunWithBandIndices(strength) ==
    /\ g # None
    /\ Val(g).shape = <<3>> \o strength.shape

RunWithBandIndices(strength) ==
    [j \in Range(strength.shape[2]) |->
        LET per_triplet ==
                [t \in Range(strength.shape[1]) |->
                    LET per_band ==
                            [k \in Range(strength.shape[3]) |->
                                SumVec([b \in Range(strength.shape[4]) |->
                                    strength.data[<<t, j, k, b>>]
                                    * Val(g).data[<<0, t, j, k, b>>]])]
                    IN SumVec(per_band)]
        IN SumVec(per_triplet) * unit_conversion]

\* Interaction.run behind ImagSelfEnergy.run_interaction: the provider
\* computes the strengths of the grid point it is set to
CanRunInteraction == pp_gp # None
RunInteraction ==
    ProviderStrength(Val(pp_gp), Size(band_indices))

\* NewCollisionMatrix on np.ones
OnesCollisionMatrix(strength) ==
    LET shape == IF is_reducible_collision_matrix
                 THEN <<strength.shape[2], Prod(mesh), strength.shape[3]>>
                 ELSE <<strength.shape[2], 3, Size(Val(ir_grid_points)),
                        strength.shape[3], 3>>
    IN [shape |-> shape, data |-> [idx \in IndexTuples(shape) |-> One]]

\* NewCollisionMatrix that allocates once and keeps the matrix afterwards
KeptCollisionMatrix(strength) ==
    IF collision_matrix # None THEN Val(collision_matrix)
    ELSE IF is_reducible_collision_matrix
    THEN Zeros(<<strength.shape[2], Prod(mesh), strength.shape[3]>>)
    ELSE Zeros(<<strength.shape[2], 3, Size(Val(ir_grid_points)),
                 strength.shape[3], 3>>)

\* NewCollisionMatrix with the first mesh dimension for the number of mesh
\* points
MisshapenCollisionMatrix(strength) ==
    IF is_reducible_collision_matrix
    THEN Zeros(<<strength.shape[2], mesh[1], strength.shape[3]>>)
    ELSE Zeros(<<strength.shape[2], 3, Size(Val(ir_grid_points)),
                 strength.shape[3], 3>>)

\* run, lines 101-112: the matrix run() allocates
NewCollisionMatrix(strength) ==
    LET num_band0 == strength.shape[2]
        num_band == strength.shape[3]
    IN IF is_reducible_collision_matrix
       THEN Zeros(<<num_band0, Prod(mesh), num_band>>)
       ELSE Zeros(<<num_band0, 3, Size(Val(ir_grid_points)), num_band, 3>>)

\* AssemblyRoutine without the test of the temperature on line 136
AssemblyRoutineAnyTemperature ==
    IF lang = "C"
    THEN IF is_reducible_collision_matrix
         THEN "_run_c_reducible_collision_matrix"
         ELSE "_run_c_collision_matrix"
    ELSE IF is_reducible_collision_matrix
         THEN "_run_py_reducible_collision_matrix"
         ELSE "_run_py_collision_matrix"

\* AssemblyRoutine with the test lang == 'C' negated
AssemblyRoutineOtherLang ==
    IF temperature > 0
    THEN IF lang # "C"
         THEN IF is_reducible_collision_matrix
              THEN "_run_c_reducible_collision_matrix"
              ELSE "_run_c_collision_matrix"
         ELSE IF is_reducible_collision_matrix
              THEN "_run_py_reducible_collision_matrix"
              ELSE "_run_py_collision_matrix"
    ELSE "none"

\* _run_collision_matrix, lines 136-146: the routine that assembles
AssemblyRoutine ==
    IF temperature > 0
    THEN IF lang = "C"
         THEN IF is_reducible_collision_matrix
              THEN "_run_c_reducible_collision_matrix"
              ELSE "_run_c_collision_matrix"
         ELSE IF is_reducible_collision_matrix
              THEN "_run_py_reducible_collision_matrix"
              ELSE "_run_py_collision_matrix"
    ELSE "none"

Assemble(routine, matrix, strength) ==
    IF routine = "_run_c_reducible_collision_matrix"
    THEN RunCReducibleCollisionMatrix(matrix, strength)
    ELSE IF routine = "_run_c_collision_matrix"
    THEN RunCCollisionMatrix(matrix, strength)
    ELSE IF routine = "_run_py_reducible_collision_matrix"
    THEN RunPyReducibleCollisionMatrix(matrix, strength)
    ELSE IF routine = "_run_py_collision_matrix"
    THEN RunPyCollisionMatrix(matrix, strength)
    ELSE [data |-> matrix.data, err |-> "ok"]

\* RunOutcome without the test on line 98: the strength is computed by
\* every run()
RunOutcomeAlwaysComputing ==
    IF ~CanRunInteraction
    THEN [status |-> "error",
          pp_strength |-> pp_strength,
          imag_self_energy |-> imag_self_energy,
          collision_matrix |-> collision_matrix,
          trace |-> <<"run_interaction">>]
    ELSE
        LET computes == TRUE
            strength == IF computes THEN RunInteraction ELSE Val(pp_strength)
            head == IF computes THEN <<"run_interaction">> ELSE <<>>
            matrix == NewCollisionMatrix(strength)
        IN IF ~CanRunWithBandIndices(strength)
           THEN [status |-> "error",
                 pp_strength |-> Some(strength),
                 imag_self_energy |->
                     Some([j \in Range(strength.shape[2]) |-> 0]),
                 collision_matrix |-> Some(matrix),
                 trace |-> head \o <<"_run_with_band_indices">>]
           ELSE
               LET routine == AssemblyRoutine
                   result == Assemble(routine, matrix, strength)
               IN [status |-> IF result.err = "ok" THEN "ok" ELSE "error",
                   pp_strength |-> Some(strength),
                   imag_self_energy |-> Some(RunWithBandIndices(strength)),
                   collision_matrix |->
                       Some([shape |-> matrix.shape, data |-> result.data]),
                   trace |-> head \o <<"_run_with_band_indices",
                                       "_run_with_band_indices">>
                             \o (IF routine = "none" THEN <<>>
                                 ELSE <<routine>>)]

\* run(): what it leaves behind.  A raised exception ends the call where it
\* is raised; the assignments made before it stay.
RunOutcome ==
    IF pp_strength = None /\ ~CanRunInteraction
    THEN [status |-> "error",
          pp_strength |-> pp_strength,
          imag_self_energy |-> imag_self_energy,
          collision_matrix |-> collision_matrix,
          trace |-> <<"run_interaction">>]
    ELSE
        LET computes == pp_strength = None
            strength == IF computes THEN RunInteraction ELSE Val(pp_strength)
            head == IF computes THEN <<"run_interaction">> ELSE <<>>
            matrix == NewCollisionMatrix(strength)
        IN IF ~CanRunWithBandIndices(strength)
           THEN [status |-> "error",
                 pp_strength |-> Some(strength),
                 imag_self_energy |->
                     Some([j \in Range(strength.shape[2]) |-> 0]),
                 collision_matrix |-> Some(matrix),
                 trace |-> head \o <<"_run_with_band_indices">>]
           ELSE
               LET routine == AssemblyRoutine
                   result == Assemble(routine, matrix, strength)
               IN [status |-> IF result.err = "ok" THEN "ok" ELSE "error",
                   pp_strength |-> Some(strength),
                   imag_self_energy |-> Some(RunWithBandIndices(strength)),
                   collision_matrix |->
                       Some([shape |-> matrix.shape, data |-> result.data]),
                   trace |-> head \o <<"_run_with_band_indices",
                                       "_run_with_band_indices">>
                             \o (IF routine = "none" THEN <<>>
                                 ELSE <<routine>>)]

\* CollisionMatrix.get_collision_matrix()
GetCollisionMatrix == collision_matrix

\* CollisionMatrix.run()
Run ==
    LET outcome == RunOutcome
    IN /\ pp_strength' = outcome.pp_strength
       /\ imag_self_energy' = outcome.imag_self_energy
       /\ collision_matrix' = outcome.collision_matrix
       /\ trace' = outcome.trace
       /\ last_call' = <<"run", outcome.status>>
       /\ out_of_order' = FALSE
       /\ UNCHANGED <<load_vars, pp_gp, grid_point, g, cache, config, pending>>

Next ==
    \/ \E gp \in GridPoints : SetGridPoint(gp)
    \/ SetGridPointNone
    \/ SetIntegrationWeights
    \/ Run

Spec == Init /\ [][Next]_vars

\* --------------------------------------- the assembly in any visiting order
\* The reference routines with the order of their loops left open: every
\* position of the loops is visited once, in whatever order.
PyRoutines ==
    {"_run_py_reducible_collision_matrix", "_run_py_collision_matrix"}

LoopPositions ==
    IF is_reducible_collision_matrix
    THEN {<<i>> : i \in Range(Prod(mesh))}
    ELSE UNION {{<<i, z>> : z \in Range(ZipLength(i))} :
                   i \in Range(Size(Val(ir_grid_points)))}

\* the position the routine's own loops visit next
Before(p, q) ==
    \/ p[1] < q[1]
    \/ p[1] = q[1] /\ Len(p) = 2 /\ p[2] < q[2]
FirstPending == CHOOSE p \in pending : \A q \in pending \ {p} : Before(p, q)

\* run() up to the call of a reference routine
BeginRunAnyOrder ==
    /\ pending = {}
    /\ pp_strength # None \/ CanRunInteraction
    /\ LET computes == pp_strength = None
           strength == IF computes THEN RunInteraction ELSE Val(pp_strength)
       IN /\ CanRunWithBandIndices(strength)
          /\ AssemblyRoutine \in PyRoutines
          /\ pp_strength' = Some(strength)
          /\ imag_self_energy' = Some(RunWithBandIndices(strength))
          /\ collision_matrix' = Some(NewCollisionMatrix(strength))
          /\ trace' = (IF computes THEN <<"run_interaction">> ELSE <<>>)
                      \o <<"_run_with_band_indices", "_run_with_band_indices",
                           AssemblyRoutine>>
    /\ pending' = LoopPositions
    /\ out_of_order' = FALSE
    /\ last_call' = <<"run", "running">>
    /\ UNCHANGED <<load_vars, pp_gp, grid_point, g, cache, config>>

\* one pass of the loop body, at a position not visited yet
StepAnyOrder ==
    /\ pending # {}
    /\ \E pos \in pending :
          LET step == IF is_reducible_collision_matrix
                      THEN PyReducibleStep(pos[1], Val(collision_matrix).data,
                                           Val(pp_strength), GetGp2tpMap)
                      ELSE PyStep(pos[1], pos[2], Val(collision_matrix).data,
                                  Val(pp_strength), GetGp2tpMap)
          IN /\ collision_matrix' =
                    Some([shape |-> Val(collision_matrix).shape,
                          data |-> step.data])
             /\ pending' = IF step.err = "ok" THEN pending \ {pos} ELSE {}
             /\ last_call' = IF step.err # "ok" THEN <<"run", "error">>
                             ELSE IF pending = {pos} THEN <<"run", "ok">>
                             ELSE last_call
             /\ out_of_order' = (out_of_order \/ pos # FirstPending)
    /\ UNCHANGED <<load_vars, pp_gp, grid_point, pp_strength, g, cache, imag_self_energy,
                   config, trace>>

\* run() whenever no reference routine is reached
RunOtherwise ==
    /\ ~ /\ pp_strength # None \/ CanRunInteraction
         /\ CanRunWithBandIndices(IF pp_strength = None THEN RunInteraction
                                  ELSE Val(pp_strength))
         /\ AssemblyRoutine \in PyRoutines
    /\ Run

NextAnyOrder ==
    \/ pending = {} /\ \E gp \in GridPoints : SetGridPoint(gp)
    \/ pending = {} /\ SetGridPointNone
    \/ pending = {} /\ SetIntegrationWeights
    \/ pending = {} /\ RunOtherwise
    \/ BeginRunAnyOrder
    \/ StepAnyOrder

SpecAnyOrder == Init /\ [][NextAnyOrder]_vars
\* ============================================================ cui/load.py
\* ------------------------------------------------------- inputs of load()
\* atoms in the supercell and in the phonon supercell of the calls of load()
SupercellNatom == 2

\* the files load() looks for in the current directory
CwdFiles == {"BORN", "fc3.hdf5", "fc2.hdf5", "FORCES_FC3", "FORCES_FC2",
             "disp_fc3.yaml", "disp_fc2.yaml"}
\* the optional arguments that name a source; "+disp" is the form
\* (force_filename, disp_filename) of a forces argument
SourceArguments == {"born_filename", "nac_params", "fc3_filename",
                    "fc2_filename", "forces_fc3_filename",
                    "forces_fc3_filename+disp", "forces_fc2_filename",
                    "forces_fc2_filename+disp"}
\* the sources supplied at once: arguments given and files present
RECURSIVE GivenUpTo(_)
GivenUpTo(n) ==
    IF n = 0 THEN {{}}
    ELSE LET fewer == GivenUpTo(n - 1)
         IN fewer \cup {given \cup {item} :
                           given \in fewer,
                           item \in CwdFiles \cup SourceArguments}
GivenSets ==
    {given \in GivenUpTo(MaxGiven) :
        /\ ~ {"forces_fc3_filename", "forces_fc3_filename+disp"} \subseteq given
        /\ ~ {"forces_fc2_filename", "forces_fc2_filename+disp"} \subseteq given}

\* the structure arguments given together
StructureArgs == {{}, {"unitcell"}, {"unitcell_filename"}, {"supercell"},
                  {"supercell_filename"}, {"phono3py_yaml"},
                  {"supercell", "phono3py_yaml"}}
CellArgs == {"unitcell", "unitcell_filename", "supercell", "supercell_filename"}

\* a displacement dataset: displacements, and forces when it has them;
\* held tells the dict a Phono3pyYaml object holds from a dict of its own
Dataset(natom, origin, displacement, forces, forces_origin) ==
    [natom |-> natom, origin |-> origin, displacement |-> displacement,
     forces |-> forces, forces_origin |-> forces_origin,
     cutoff_distance |-> None, held |-> FALSE]

\* the displacement data of a phono3py_yaml-like file:
\* <<natom, displacement, forces, cutoff_distance>>
YamlDataset(natom, forces, cutoff_distance) ==
    Some(<<natom, 3, forces, cutoff_distance>>)

\* Phono3pyYaml.parse: the dataset built from displacement data of the yaml
ParseYamlDataset(data, name) ==
    IF data = None THEN None
    ELSE Some([Dataset(Some(Val(data)[1]), name, Val(data)[2], Val(data)[3],
                       IF Val(data)[3] = None THEN "" ELSE name)
                  EXCEPT !.cutoff_distance = Val(data)[4]])

\* the dataset as the dict the Phono3pyYaml object holds
HeldDataset(dataset) ==
    IF dataset = None THEN None
    ELSE Some([Val(dataset) EXCEPT !.held = TRUE])

\* Phono3pyYaml.read: the object made from the data of a yaml file
ReadPhono3pyYaml(nac, yaml_data) ==
    [nac_params |-> nac, yaml_data |-> yaml_data,
     dataset |-> HeldDataset(ParseYamlDataset(yaml_data.dataset,
                                              "phono3py_yaml:dataset")),
     phonon_dataset |->
         HeldDataset(ParseYamlDataset(yaml_data.phonon_dataset,
                                      "phono3py_yaml:phonon_dataset")),
     phonon_supercell_matrix |-> IF yaml_data.phonon_dataset = None THEN None
                                 ELSE Some("phono3py_yaml")]

\* what a phono3py_yaml-like file may hold
Yamls ==
    {ReadPhono3pyYaml(nac, [dataset |-> d, phonon_dataset |-> pd]) :
        nac \in {None, Some("phono3py_yaml")},
        d \in {None, YamlDataset(SupercellNatom, None, None),
               YamlDataset(SupercellNatom, Some(5), None)},
        pd \in {None, YamlDataset(SupercellNatom, Some(5), None)}}
EmptyYaml == ReadPhono3pyYaml(None, [dataset |-> None, phonon_dataset |-> None])

\* the calls of load() that are explored
\* the yaml varies when phono3py_yaml is given, the force constants
\* calculator when force constants are produced
LoadInputs ==
    {[structure |-> sy[1], yaml |-> sy[2], phonon_supercell_matrix |-> psm,
      given |-> given, is_nac |-> t[1], produce_fc |-> t[2][1],
      fc_calculator |-> t[2][2], forces_type |-> t[3],
      calculator |-> "vasp", natom |-> SupercellNatom,
      phonon_natom |-> SupercellNatom] :
        sy \in {c \in StructureArgs \X (Yamls \cup {EmptyYaml}) :
                   "phono3py_yaml" \in c[1] \/ c[2] = EmptyYaml},
        psm \in BOOLEAN, given \in GivenSets,
        t \in BOOLEAN
              \X {<<FALSE, "none">>, <<TRUE, "none">>, <<TRUE, "alm">>}
              \X {1, 2}}

\* os.path.isfile(name), and the files the arguments name, which exist
IsFile(args, name) ==
    \/ name \in CwdFiles /\ name \in args.given
    \/ name \notin CwdFiles

\* --------------------- create_force_constants.py: parse_forces and helpers
\* phonopy get_default_physical_units(calculator): the default calculator
\* has a distance factor of one and no force factor; 2 and 3 stand for
\* the factors Bohr and Rydberg / Bohr of "qe"
GetDefaultPhysicalUnits(calculator) ==
    IF calculator = "qe"
    THEN [distance_to_A |-> Some(2), force_to_eVperA |-> Some(3)]
    ELSE [distance_to_A |-> Some(1), force_to_eVperA |-> None]

\* parse_forces, lines 186-189: len(phono3py.phonon_supercell) or
\* len(phono3py.supercell)
Natom(args, fc_type) ==
    IF fc_type = "phonon_fc2" THEN args.phonon_natom ELSE args.natom

\* forces_in_dataset
forces_in_dataset(dataset) == dataset.forces # None

\* _extract_datast_from_ph3py_yaml handing out the dict the yaml holds
ExtractDatasetHeld(ph3py_yaml, fc_type) ==
    IF ph3py_yaml = None THEN None
    ELSE IF fc_type = "phonon_fc2" THEN Val(ph3py_yaml).phonon_dataset
    ELSE Val(ph3py_yaml).dataset

\* _extract_datast_from_ph3py_yaml: when the yaml holds a dataset, the
\* dataset of a new Phono3pyYaml that parses the same yaml data
ExtractDatasetFromPh3pyYaml(ph3py_yaml, fc_type) ==
    IF ph3py_yaml = None THEN None
    ELSE IF fc_type = "phonon_fc2"
    THEN IF Val(ph3py_yaml).phonon_dataset # None
         THEN ParseYamlDataset(Val(ph3py_yaml).yaml_data.phonon_dataset,
                               "phono3py_yaml:phonon_dataset")
         ELSE None
    ELSE IF Val(ph3py_yaml).dataset # None
    THEN ParseYamlDataset(Val(ph3py_yaml).yaml_data.dataset,
                          "phono3py_yaml:dataset")
    ELSE None

\* _get_type2_dataset: the dataset of a forces file in type-2 format
GetType2Dataset(args, natom, filename) ==
    IF ~IsFile(args, filename) THEN None
    ELSE IF args.forces_type = 2
    THEN Some(Dataset(None, filename, 4, Some(7), filename))
    ELSE None

\* _read_disp_fc_yaml: the displacements of a disp_fc*.yaml file
ReadDispFcYaml(disp_filename) ==
    Dataset(Some(SupercellNatom), disp_filename, 3, None, "")

\* lines 225-229 replacing the cutoff distance whenever one is given
WithCutoffAlways(dataset, cutoff_pair_distance) ==
    IF cutoff_pair_distance # None /\ Val(cutoff_pair_distance) # 0
    THEN [dataset EXCEPT !.cutoff_distance = cutoff_pair_distance]
    ELSE dataset

\* parse_forces, lines 225-229
WithCutoff(dataset, cutoff_pair_distance) ==
    IF cutoff_pair_distance # None
       /\ Val(cutoff_pair_distance) # 0
       /\ (\/ dataset.cutoff_distance = None
           \/ Val(cutoff_pair_distance) < Val(dataset.cutoff_distance))
    THEN [dataset EXCEPT !.cutoff_distance = cutoff_pair_distance]
    ELSE dataset

\* parse_FORCES_FC3 / parse_FORCES_FC2: the forces of a type-1 file put
\* into the dataset
ParseForcesFile(dataset, filename) ==
    [dataset EXCEPT !.forces = Some(7), !.forces_origin = filename]

\* _convert_unit_in_dataset
ConvertUnitInDataset(dataset, calculator) ==
    LET converted ==
            IF GetDefaultPhysicalUnits(calculator).distance_to_A # None
            THEN [dataset EXCEPT !.displacement =
                      dataset.displacement
                      * Val(GetDefaultPhysicalUnits(calculator).distance_to_A)]
            ELSE dataset
    IN IF GetDefaultPhysicalUnits(calculator).force_to_eVperA # None
          /\ converted.forces # None
       THEN [converted EXCEPT !.forces =
                Some(Val(converted.forces)
                     * Val(GetDefaultPhysicalUnits(calculator).force_to_eVperA))]
       ELSE converted

\* parse_forces, lines 235-248: the forces of a type-1 file when the
\* dataset has none, then the unit conversion
ParseForcesType1(args, dataset, force_filename) ==
    IF forces_in_dataset(dataset)
    THEN [status |-> "ok",
          dataset |-> Some(ConvertUnitInDataset(dataset, args.calculator))]
    ELSE IF ~IsFile(args, Val(force_filename))
    THEN [status |-> "FileNotFoundError", dataset |-> None]
    ELSE [status |-> "ok",
          dataset |-> Some(ConvertUnitInDataset(
              ParseForcesFile(dataset, Val(force_filename)),
              args.calculator))]

\* lines 216-246 with the check of the number of atoms made after the forces
\* file was parsed and the units converted
ParseForcesCheckedLate(args, natom, dataset, cutoff_pair_distance, force_filename) ==
    IF ParseForcesType1(args, WithCutoff(dataset, cutoff_pair_distance),
                        force_filename).status # "ok"
    THEN ParseForcesType1(args, WithCutoff(dataset, cutoff_pair_distance),
                          force_filename)
    ELSE IF dataset.natom # None /\ Val(dataset.natom) # natom
    THEN [status |-> "RuntimeError", dataset |-> None]
    ELSE ParseForcesType1(args, WithCutoff(dataset, cutoff_pair_distance),
                          force_filename)

\* parse_forces, lines 216-231: the check of the number of atoms and the
\* cutoff pair distance
ParseForcesChecked(args, natom, dataset, cutoff_pair_distance, force_filename) ==
    IF dataset.natom # None /\ Val(dataset.natom) # natom
    THEN [status |-> "RuntimeError", dataset |-> None]
    ELSE ParseForcesType1(args, WithCutoff(dataset, cutoff_pair_distance),
                          force_filename)

\* parse_forces, lines 211-215: the displacements of disp_filename when no
\* dataset was found so far
ParseForcesSelected(args, natom, selected, cutoff_pair_distance, force_filename, disp_filename) ==
    IF selected = None /\ disp_filename = None
    THEN [status |-> "TypeError", dataset |-> None]
    ELSE ParseForcesChecked(args, natom,
                            IF selected = None
                            THEN ReadDispFcYaml(Val(disp_filename))
                            ELSE Val(selected),
                            cutoff_pair_distance, force_filename)

\* parse_forces, lines 200-209: a type-2 forces file is tried when the
\* dataset of the yaml is missing or has no forces
ParseForcesExtracted(args, natom, extracted, cutoff_pair_distance, force_filename, disp_filename) ==
    IF extracted # None /\ forces_in_dataset(Val(extracted))
    THEN ParseForcesSelected(args, natom, extracted, cutoff_pair_distance,
                             force_filename, disp_filename)
    ELSE IF force_filename = None
    THEN [status |-> "TypeError", dataset |-> None]
    ELSE IF GetType2Dataset(args, natom, Val(force_filename)) # None
    THEN ParseForcesSelected(
             args, natom, GetType2Dataset(args, natom, Val(force_filename)),
             cutoff_pair_distance, force_filename, disp_filename)
    ELSE ParseForcesSelected(args, natom, extracted, cutoff_pair_distance,
                             force_filename, disp_filename)

\* parse_forces: how it ends and the dataset it returns
ParseForces(args, ph3py_yaml, cutoff_pair_distance, force_filename, disp_filename, fc_type) ==
    ParseForcesExtracted(args, Natom(args, fc_type),
                         ExtractDatasetFromPh3pyYaml(ph3py_yaml, fc_type),
                         cutoff_pair_distance, force_filename, disp_filename)

\* ------------------------------------------------- the Phono3py instance
\* Phono3py(cell, smat, ...): the fields load() sets or reads
NewPhono3py(ph_smat) ==
    [fc3 |-> None, fc2 |-> None, dataset |-> None, phonon_dataset |-> None,
     nac_params |-> None, phonon_supercell_matrix |-> ph_smat]

\* read_fc3_from_hdf5 / read_fc2_from_hdf5: force constants of a file
ReadFcFromHdf5(filename) == Some([of |-> filename, by |-> "read"])

\* Phono3py.produce_fc3: fc3 from the dataset; fc2 comes with it and is
\* kept when the instance has none
ProduceFc3(ph3py) ==
    LET made == Some([of |-> Val(ph3py.dataset).forces_origin,
                      by |-> "produce_fc3"])
    IN [ph3py EXCEPT !.fc3 = made,
                     !.fc2 = IF ph3py.fc2 = None THEN made ELSE ph3py.fc2]

\* Phono3py.produce_fc2: fc2 from the phonon dataset, or from the dataset
\* when there is none
ProduceFc2(ph3py) ==
    LET disp_dataset == IF ph3py.phonon_dataset = None THEN ph3py.dataset
                        ELSE ph3py.phonon_dataset
    IN [ph3py EXCEPT !.fc2 = Some([of |-> Val(disp_dataset).forces_origin,
                                   by |-> "produce_fc2"])]

\* ------------------------------------ set_dataset_and_force_constants
\* a forces argument: (force_filename, disp_filename)
ForcesArgument(args, name) ==
    IF name \in args.given THEN <<Some(name), None>>
    ELSE <<Some(name), Some(name \o "+disp")>>

\* lines 378-383 and 494-499: the disp_fc*.yaml of the current directory
CwdDispFilename(args, ph3py_yaml, name) ==
    IF IsFile(args, name)
       /\ (ph3py_yaml = None \/ Val(ph3py_yaml).dataset = None)
    THEN Some(name) ELSE None

\* _set_forces_fc3, lines 544-548
ProduceFc3IfAsked(args, stored) ==
    IF args.produce_fc
    THEN [status |-> "ok", ph3py |-> ProduceFc3(stored),
          log |-> << <<"parse_forces", "fc3">>, <<"produce_fc3", "fc3">> >>]
    ELSE [status |-> "ok", ph3py |-> stored,
          log |-> << <<"parse_forces", "fc3">> >>]

\* _set_forces_fc3, lines 536-543: the parsed dataset is stored
StoreParsedFc3(args, ph3py, parsed) ==
    IF parsed.status # "ok"
    THEN [status |-> parsed.status, ph3py |-> ph3py,
          log |-> << <<"parse_forces", "fc3">> >>]
    ELSE ProduceFc3IfAsked(args, [ph3py EXCEPT !.dataset = parsed.dataset])

\* _set_forces_fc3
SetForcesFc3(args, ph3py, ph3py_yaml, force_filename, disp_filename) ==
    StoreParsedFc3(args, ph3py,
                   ParseForces(args, ph3py_yaml, None, force_filename,
                               disp_filename, "fc3"))

\* _set_forces_fc2, lines 576-580
ProduceFc2IfAsked(args, stored, fc_type) ==
    IF args.produce_fc
    THEN [status |-> "ok", ph3py |-> ProduceFc2(stored),
          log |-> << <<"parse_forces", fc_type>>, <<"produce_fc2", fc_type>> >>]
    ELSE [status |-> "ok", ph3py |-> stored,
          log |-> << <<"parse_forces", fc_type>> >>]

\* _set_forces_fc2, lines 564-574: the parsed dataset is stored
StoreParsedFc2(args, ph3py, parsed, fc_type) ==
    IF parsed.status # "ok"
    THEN [status |-> parsed.status, ph3py |-> ph3py,
          log |-> << <<"parse_forces", fc_type>> >>]
    ELSE IF fc_type = "phonon_fc2"
    THEN ProduceFc2IfAsked(
             args, [ph3py EXCEPT !.phonon_dataset = parsed.dataset], fc_type)
    ELSE ProduceFc2IfAsked(
             args, [ph3py EXCEPT !.dataset = parsed.dataset], fc_type)

\* _set_forces_fc2
SetForcesFc2(args, ph3py, ph3py_yaml, force_filename, disp_filename, fc_type) ==
    StoreParsedFc2(args, ph3py,
                   ParseForces(args, ph3py_yaml, None, force_filename,
                               disp_filename, fc_type),
                   fc_type)

YamlHasForces(ph3py_yaml, field) ==
    /\ ph3py_yaml # None
    /\ Val(ph3py_yaml)[field] # None
    /\ forces_in_dataset(Val(Val(ph3py_yaml)[field]))

\* lines 349-408: the fc3 part
SetFc3(args, ph3py, ph3py_yaml) ==
    IF "fc3_filename" \in args.given
    THEN [status |-> "ok",
          ph3py |-> [ph3py EXCEPT !.fc3 = ReadFcFromHdf5("fc3_filename")],
          log |-> << <<"read_fc3_from_hdf5", "fc3_filename">> >>]
    ELSE IF \E form \in {"forces_fc3_filename", "forces_fc3_filename+disp"} :
                form \in args.given
    THEN LET names == ForcesArgument(args, "forces_fc3_filename")
         IN SetForcesFc3(args, ph3py, ph3py_yaml, names[1], names[2])
    ELSE IF IsFile(args, "fc3.hdf5")
    THEN [status |-> "ok",
          ph3py |-> [ph3py EXCEPT !.fc3 = ReadFcFromHdf5("fc3.hdf5")],
          log |-> << <<"read_fc3_from_hdf5", "fc3.hdf5">> >>]
    ELSE IF IsFile(args, "FORCES_FC3")
    THEN SetForcesFc3(args, ph3py, ph3py_yaml, Some("FORCES_FC3"),
                      CwdDispFilename(args, ph3py_yaml, "disp_fc3.yaml"))
    ELSE IF YamlHasForces(ph3py_yaml, "dataset")
    THEN SetForcesFc3(args, ph3py, ph3py_yaml, None, None)
    ELSE [status |-> "ok", ph3py |-> ph3py, log |-> <<>>]

\* lines 413-510: the fc2 part
SetFc2(args, ph3py, ph3py_yaml) ==
    IF "fc2_filename" \in args.given
    THEN [status |-> "ok",
          ph3py |-> [ph3py EXCEPT !.fc2 = ReadFcFromHdf5("fc2_filename")],
          log |-> << <<"read_fc2_from_hdf5", "fc2_filename">> >>]
    ELSE IF \E form \in {"forces_fc2_filename", "forces_fc2_filename+disp"} :
                form \in args.given
    THEN LET names == ForcesArgument(args, "forces_fc2_filename")
         IN SetForcesFc2(args, ph3py, ph3py_yaml, names[1], names[2],
                         "phonon_fc2")
    ELSE IF IsFile(args, "fc2.hdf5")
    THEN [status |-> "ok",
          ph3py |-> [ph3py EXCEPT !.fc2 = ReadFcFromHdf5("fc2.hdf5")],
          log |-> << <<"read_fc2_from_hdf5", "fc2.hdf5">> >>]
    ELSE IF IsFile(args, "FORCES_FC2")
    THEN SetForcesFc2(args, ph3py, ph3py_yaml, Some("FORCES_FC2"),
                      CwdDispFilename(args, ph3py_yaml, "disp_fc2.yaml"),
                      "phonon_fc2")
    ELSE IF /\ ph3py.phonon_supercell_matrix = None
            /\ args.fc_calculator = "alm"
            /\ ph3py.fc2 # None
    THEN [status |-> "ok", ph3py |-> ph3py, log |-> <<>>]
    ELSE IF YamlHasForces(ph3py_yaml, "phonon_dataset")
    THEN SetForcesFc2(args, ph3py, ph3py_yaml, None, None, "phonon_fc2")
    ELSE IF YamlHasForces(ph3py_yaml, "dataset")
    THEN SetForcesFc2(args, ph3py, ph3py_yaml, None, None, "fc2")
    ELSE IF IsFile(args, "FORCES_FC3")
    THEN SetForcesFc2(args, ph3py, ph3py_yaml, Some("FORCES_FC3"),
                      CwdDispFilename(args, ph3py_yaml, "disp_fc3.yaml"),
                      "fc2")
    ELSE [status |-> "ok", ph3py |-> ph3py, log |-> <<>>]

\* lines 516-520: the datasets of the yaml put on the instance
StoreYamlDatasets(ph3py, ph3py_yaml) ==
    LET with_dataset ==
            IF ph3py_yaml # None /\ Val(ph3py_yaml).dataset # None
            THEN [ph3py EXCEPT !.dataset = Val(ph3py_yaml).dataset]
            ELSE ph3py
    IN IF ph3py_yaml # None /\ Val(ph3py_yaml).phonon_dataset # None
       THEN [with_dataset EXCEPT
                !.phonon_dataset = Val(ph3py_yaml).phonon_dataset]
       ELSE with_dataset

\* set_dataset_and_force_constants after both parts
AfterFc2(third, second, ph3py_yaml) ==
    IF second.status # "ok"
    THEN [second EXCEPT !.log = third.log \o second.log]
    ELSE [status |-> "ok",
          ph3py |-> StoreYamlDatasets(second.ph3py, ph3py_yaml),
          log |-> third.log \o second.log]

\* set_dataset_and_force_constants after the fc3 part
AfterFc3(args, third, ph3py_yaml) ==
    IF third.status # "ok" THEN third
    ELSE AfterFc2(third, SetFc2(args, third.ph3py, ph3py_yaml), ph3py_yaml)

\* set_dataset_and_force_constants: how it ends, the instance it leaves and
\* the calls it made
SetDatasetAndForceConstants(args, ph3py, ph3py_yaml) ==
    AfterFc3(args, SetFc3(args, ph3py, ph3py_yaml), ph3py_yaml)

\* ------------------------------------------------------------- load()
\* lines 241-281: the cell, the phonon supercell matrix, the NAC
\* parameters handed on and the yaml that was read
CellSettings(args) ==
    IF args.structure \cap CellArgs # {}
    THEN IF /\ args.phonon_supercell_matrix
            /\ args.structure \cap {"unitcell", "unitcell_filename"} = {}
         THEN [status |-> "RuntimeError", ph_smat |-> None,
               nac_params |-> None, ph3py_yaml |-> None]
         ELSE [status |-> "ok",
               ph_smat |-> IF args.phonon_supercell_matrix
                           THEN Some("phonon_supercell_matrix") ELSE None,
               nac_params |-> IF "nac_params" \in args.given
                              THEN Some("nac_params") ELSE None,
               ph3py_yaml |-> None]
    ELSE IF "phono3py_yaml" \in args.structure
    THEN [status |-> "ok",
          ph_smat |-> args.yaml.phonon_supercell_matrix,
          nac_params |-> IF "nac_params" \in args.given
                         THEN Some("nac_params")
                         ELSE IF args.is_nac THEN args.yaml.nac_params
                         ELSE None,
          ph3py_yaml |-> Some(args.yaml)]
    ELSE [status |-> "UnboundLocalError", ph_smat |-> None,
          nac_params |-> None, ph3py_yaml |-> None]

\* phonopy load_helper.get_nac_params(primitive, nac_params, born_filename,
\* is_nac, nac_factor)
GetNacParams(args, nac_params) ==
    IF "born_filename" \in args.given THEN Some("born_filename")
    ELSE IF nac_params # None THEN nac_params
    ELSE IF args.is_nac /\ IsFile(args, "BORN") THEN Some("BORN")
    ELSE None

\* lines 301-310
WithNacParams(args, ph3py, nac_params) ==
    IF \/ "born_filename" \in args.given
       \/ "nac_params" \in args.given
       \/ args.is_nac /\ IsFile(args, "BORN")
    THEN [ph3py EXCEPT !.nac_params = GetNacParams(args, nac_params)]
    ELSE ph3py

\* load(), lines 312-330: the end of the call
LoadReturn(set) ==
    IF set.status # "ok"
    THEN [status |-> set.status, ph3py |-> None, log |-> set.log]
    ELSE [status |-> "ok", ph3py |-> Some(set.ph3py), log |-> set.log]

\* load(), lines 283-330, with the settings of lines 241-281
LoadWithSettings(args, settings) ==
    IF settings.status # "ok"
    THEN [status |-> settings.status, ph3py |-> None, log |-> <<>>]
    ELSE LoadReturn(SetDatasetAndForceConstants(
             args,
             WithNacParams(args, NewPhono3py(settings.ph_smat),
                           settings.nac_params),
             settings.ph3py_yaml))

\* load(): how it ends, the instance it returns and the calls it made
LoadOutcome(args) == LoadWithSettings(args, CellSettings(args))

\* load() has not been called; no assembler is in use
InitLoad ==
    /\ pp_gp = None
    /\ grid_point = None
    /\ pp_strength = None
    /\ g = None
    /\ triplets_at_q = None
    /\ weights_at_q = None
    /\ triplets_map_at_q = None
    /\ ir_map_at_q = None
    /\ frequencies = None
    /\ imag_self_energy = None
    /\ collision_matrix = None
    /\ temperature = 0
    /\ lang = "C"
    /\ is_reducible_collision_matrix = TRUE
    /\ cutoff_frequency = 0
    /\ unit_conversion = 1
    /\ band_indices = [j \in Range(1) |-> j]
    /\ mesh = Mesh
    /\ ir_grid_points = None
    /\ rot_grid_points = None
    /\ rotations_cartesian = None
    /\ last_call = <<"init", "ok">>
    /\ trace = <<>>
    /\ pending = {}
    /\ out_of_order = FALSE
    /\ load_args = None
    /\ load_result = None
    /\ parse_phono3py = None
    /\ parse_yaml = None
    /\ parse_args = None
    /\ parse_result = None
    /\ parse_calls = 0

\* load(...)
Load ==
    /\ load_result = None
    /\ load_args' \in {Some(args) : args \in LoadInputs}
    /\ load_result' = Some(LoadOutcome(Val(load_args')))
    /\ UNCHANGED <<pp_gp, grid_point, pp_strength, g, cache, imag_self_energy,
                   collision_matrix, config, last_call, trace, pending,
                   out_of_order, parse_vars>>

NextLoad == Load

SpecLoad == InitLoad /\ [][NextLoad]_vars

\* ------------------------------------------------ calls of parse_forces
\* the largest cutoff distance a dataset stores
MaxCutoff == 2
\* the calls of parse_forces made with one Phono3pyYaml object
MaxCalls == 2

\* the numbers of atoms a supercell has and a dataset declares
Natoms == {SupercellNatom, SupercellNatom + 1}
\* the cutoff distances a dataset stores
StoredCutoffs == {None} \cup {Some(c) : c \in 1..MaxCutoff}
\* the cutoff_pair_distance arguments: None, zero, below and above the
\* stored ones
GivenCutoffs == {None} \cup {Some(c) : c \in 0..(MaxCutoff + 1)}

\* the Phono3pyYaml objects given to parse_forces: none, or one read from
\* a yaml file
ParseYamls ==
    {None} \cup
    {Some(ReadPhono3pyYaml(None, [dataset |-> d, phonon_dataset |-> pd])) :
        d \in {None} \cup {YamlDataset(n, f, c) :
                               n \in Natoms, f \in {None, Some(5)},
                               c \in StoredCutoffs},
        pd \in {None} \cup {YamlDataset(n, Some(5), None) : n \in Natoms}}

\* the Phono3py instances given to parse_forces (calculator, supercells)
\* and the forces file at hand: none, one of type 1 or one of type 2
ParsePhono3pys ==
    {[given |-> file[1], forces_type |-> file[2], calculator |-> calculator,
      natom |-> natoms[1], phonon_natom |-> natoms[2]] :
        file \in {<<{}, 1>>, <<{"FORCES_FC3"}, 1>>, <<{"FORCES_FC3"}, 2>>},
        calculator \in {"vasp", "qe"},
        natoms \in {<<SupercellNatom, SupercellNatom>>,
                    <<SupercellNatom, SupercellNatom + 1>>,
                    <<SupercellNatom + 1, SupercellNatom>>}}

\* the other arguments of the calls of parse_forces that are explored
ParseInputs ==
    {[cutoff_pair_distance |-> cutoff_pair_distance,
      force_filename |-> Some("FORCES_FC3"), disp_filename |-> disp_filename,
      fc_type |-> fc_type] :
        cutoff_pair_distance \in GivenCutoffs,
        disp_filename \in {None, Some("disp_fc3.yaml")},
        fc_type \in {"fc3", "phonon_fc2"}}

\* parse_forces changes its dataset in place: a dataset that is the dict
\* the Phono3pyYaml object holds is changed in that object
YamlAfterParseForces(ph3py_yaml, fc_type, result) ==
    IF result.dataset = None THEN ph3py_yaml
    ELSE IF ~Val(result.dataset).held THEN ph3py_yaml
    ELSE IF fc_type = "phonon_fc2"
    THEN Some([Val(ph3py_yaml) EXCEPT !.phonon_dataset = result.dataset])
    ELSE Some([Val(ph3py_yaml) EXCEPT !.dataset = result.dataset])

\* the call made with the arguments args
ParseForcesOf(phono3py, ph3py_yaml, args) ==
    ParseForces(phono3py, ph3py_yaml, args.cutoff_pair_distance,
                args.force_filename, args.disp_filename, args.fc_type)

\* parse_forces has not been called; a Phono3pyYaml object may be at hand
InitParse ==
    /\ pp_gp = None
    /\ grid_point = None
    /\ pp_strength = None
    /\ g = None
    /\ triplets_at_q = None
    /\ weights_at_q = None
    /\ triplets_map_at_q = None
    /\ ir_map_at_q = None
    /\ frequencies = None
    /\ imag_self_energy = None
    /\ collision_matrix = None
    /\ temperature = 0
    /\ lang = "C"
    /\ is_reducible_collision_matrix = TRUE
    /\ cutoff_frequency = 0
    /\ unit_conversion = 1
    /\ band_indices = [j \in Range(1) |-> j]
    /\ mesh = Mesh
    /\ ir_grid_points = None
    /\ rot_grid_points = None
    /\ rotations_cartesian = None
    /\ last_call = <<"init", "ok">>
    /\ trace = <<>>
    /\ pending = {}
    /\ out_of_order = FALSE
    /\ load_args = None
    /\ load_result = None
    /\ parse_phono3py \in {Some(phono3py) : phono3py \in ParsePhono3pys}
    /\ parse_yaml \in ParseYamls
    /\ parse_args = None
    /\ parse_result = None
    /\ parse_calls = 0

\* parse_forces(phono3py, ph3py_yaml, cutoff_pair_distance, force_filename,
\* disp_filename, fc_type)
ParseForcesCall ==
    /\ parse_calls < MaxCalls
    /\ parse_args' \in {Some(args) : args \in ParseInputs}
    /\ parse_result' = Some(ParseForcesOf(Val(parse_phono3py), parse_yaml,
                                          Val(parse_args')))
    /\ parse_yaml' = YamlAfterParseForces(parse_yaml, Val(parse_args').fc_type,
                                          Val(parse_result'))
    /\ parse_calls' = parse_calls + 1
    /\ UNCHANGED <<pp_gp, grid_point, pp_strength, g, cache, imag_self_energy,
                   collision_matrix, config, last_call, trace, pending,
                   out_of_order, load_args, load_result, parse_phono3py>>

NextParse == ParseForcesCall

SpecParse == InitParse /\ [][NextParse]_vars

\* ------------------------------------------------------------ the claims
RunCompleted == last_call = <<"run", "ok">>
CMatrix == Val(collision_matrix)
Strength == Val(pp_strength)
AssemblyRoutines ==
    PyRoutines \cup {"_run_c_reducible_collision_matrix",
                     "_run_c_collision_matrix"}
Invoked(names) == {trace[n] : n \in 1 .. Len(trace)} \cap names
IsSelfEnergyCall(name) == name = "_run_with_band_indices"

\* the dense index of the representative triplet of grid point gp
RepresentativeIndex(gp) ==
    Cardinality({m \in DOMAIN Val(triplets_map_at_q) :
                    /\ Val(triplets_map_at_q)[m] = m
                    /\ m < Val(triplets_map_at_q)[gp]})

\* unit_conversion times the sum over the companion band b of
\* strength[ti, j, k, b] * occupation(gp)[b] * g[2, ti, j, k, b],
\* for every grid point gp and band pair (j, k)
ExpectedCollision ==
    [gjk \in (DOMAIN Val(triplets_map_at_q))
             \X Range(Strength.shape[2]) \X Range(Strength.shape[3]) |->
        LET ti == RepresentativeIndex(gjk[1])
            occupation == GetInvSinh(gjk[1], GetGp2tpMap)
        IN unit_conversion
           * SumVec([b \in Range(Strength.shape[4]) |->
                        Strength.data[<<ti, gjk[2], gjk[3], b>>]
                        * occupation[b]
                        * Val(g).data[<<2, ti, gjk[2], gjk[3], b>>]])]

\* C1: in the reducible variant with temperature > 0, after run() completes
\* every entry matrix[j, i, k] is unit_conversion times the sum over the
\* companion band b of strength[ti, j, k, b] * occupation(i)[b]
\* * g[2, ti, j, k, b], ti the dense index of the representative triplet of
\* mesh point i: each mesh point receives exactly one contribution.
C1_ReducibleEntries ==
    (RunCompleted /\ is_reducible_collision_matrix /\ temperature > 0) =>
        LET expected == ExpectedCollision
        IN \A i \in Range(Prod(mesh)) :
               \A j \in Range(Strength.shape[2]), k \in Range(Strength.shape[3]) :
                   CMatrix.data[<<j, i, k>>] = expected[<<i, j, k>>]

\* a reference run of the reducible variant that added something at a mesh
\* point which is not its own representative
C1_Witness ==
    /\ RunCompleted /\ is_reducible_collision_matrix /\ temperature > 0
    /\ lang = "Py"
    /\ \E i \in Range(Prod(mesh)) :
          /\ Val(triplets_map_at_q)[i] # i
          /\ \E j \in Range(Strength.shape[2]), k \in Range(Strength.shape[3]) :
                CMatrix.data[<<j, i, k>>] # 0

\* C2: in the irreducible variant with temperature > 0, after run()
\* completes the 3x3 block matrix[j, :, i, k, :] is the sum, over every
\* image r_gp listed in rot_grid_points[i] with its rotation matrix r, of
\* collision(r_gp, j, k) * r: every listed image contributes once.
C2_IrreducibleBlocks ==
    (RunCompleted /\ ~is_reducible_collision_matrix /\ temperature > 0) =>
        LET expected == ExpectedCollision
        IN \A i \in DOMAIN Val(ir_grid_points) :
               \A j \in Range(Strength.shape[2]), k \in Range(Strength.shape[3]) :
                   \A ac \in Range(3) \X Range(3) :
                       CMatrix.data[<<j, ac[1], i, k, ac[2]>>]
                       = SumVec([z \in DOMAIN Val(rot_grid_points)[i] |->
                             expected[<<Val(rot_grid_points)[i][z], j, k>>]
                             * Val(rotations_cartesian)[z][ac]])

\* a reference run of the irreducible variant that left an off-diagonal
\* Cartesian entry
C2_Witness ==
    /\ RunCompleted /\ ~is_reducible_collision_matrix /\ temperature > 0
    /\ lang = "Py"
    /\ \E i \in DOMAIN Val(ir_grid_points) :
          \E j \in Range(Strength.shape[2]), k \in Range(Strength.shape[3]) :
              /\ CMatrix.data[<<j, 1, i, k, 0>>] # 0
              /\ CMatrix.data[<<j, 0, i, k, 0>>] # 0

\* C3: with temperature <= 0 a completed run() leaves every entry of the
\* matrix zero and invokes no assembly routine; the self-energy is computed
\* by the same two calls, with the same result, as with temperature > 0.
C3_NoAssemblyAtOrBelowZero ==
    RunCompleted =>
        /\ SelectSeq(trace, IsSelfEnergyCall)
               = <<"_run_with_band_indices", "_run_with_band_indices">>
        /\ imag_self_energy = Some(RunWithBandIndices(Strength))
        /\ temperature <= 0 =>
               /\ \A idx \in DOMAIN CMatrix.data : CMatrix.data[idx] = 0
               /\ Invoked(AssemblyRoutines) = {}

\* a completed run at temperature <= 0 with a self-energy that is not zero
C3_Witness ==
    /\ RunCompleted /\ temperature <= 0
    /\ collision_matrix # None
    /\ \E j \in DOMAIN Val(imag_self_energy) : Val(imag_self_energy)[j] # 0

\* C4: for every band of the companion mode whose frequency is at or below
\* the cutoff, _get_inv_sinh returns exactly 0 (a finite number), also when
\* the frequency is exactly 0.
C4_ZeroAtOrBelowCutoff ==
    (triplets_map_at_q # None /\ temperature > 0) =>
        \A gp \in {p \in DOMAIN Val(triplets_map_at_q) :
                       Val(triplets_map_at_q)[p] \in DOMAIN GetGp2tpMap} :
            LET freqs == Val(frequencies)[CompanionGridPoint(gp, GetGp2tpMap)]
                inv_sinh == GetInvSinh(gp, GetGp2tpMap)
            IN \A b \in DOMAIN freqs :
                   freqs[b] <= cutoff_frequency =>
                       inv_sinh[b] = 0 /\ inv_sinh[b] # Inf

\* an assembly has run for a grid point whose companion mode has a band of
\* frequency exactly 0, weighted 0, next to a band that is weighted
C4_Witness ==
    /\ RunCompleted /\ temperature > 0 /\ Invoked(PyRoutines) # {}
    /\ \E gp \in DOMAIN Val(triplets_map_at_q) :
          LET freqs == Val(frequencies)[CompanionGridPoint(gp, GetGp2tpMap)]
              inv_sinh == GetInvSinh(gp, GetGp2tpMap)
          IN /\ \E b \in DOMAIN freqs : freqs[b] = 0 /\ inv_sinh[b] = 0
             /\ \E b \in DOMAIN freqs : inv_sinh[b] > 0

\* C5: run() called while no grid point is bound (never bound, or
\* set_grid_point(None) was the last transition) fails and performs no
\* assembly.
C5_RunUnsetFails ==
    (last_call[1] = "run" /\ grid_point = None) =>
        /\ last_call[2] = "error"
        /\ Invoked(AssemblyRoutines) = {}

\* the provider's data of the bound grid point, as set_grid_point caches it
CacheOf(gp) ==
    <<Some(ProviderTriplets(gp)), Some(ProviderWeights(gp)),
      Some(ProviderTripletMap(gp)), Some(ProviderIrMap(gp)),
      Some(ProviderFrequencies(gp))>>

\* C6: set_grid_point(index) leaves the assembler bound to index, without
\* cached strength and with the provider's triplets, weights, triplet map,
\* irreducible map and frequencies of index; the run() that follows computes
\* the strength anew, and whenever a strength is cached it is the one of the
\* grid point bound last.
C6_SetGridPointInvalidates ==
    [][/\ last_call' = <<"set_grid_point", "ok">> =>
              /\ grid_point' # None
              /\ pp_strength' = None
              /\ cache' = CacheOf(Val(grid_point'))
       /\ (last_call = <<"set_grid_point", "ok">> /\ last_call'[1] = "run") =>
              /\ Head(trace') = "run_interaction"
              /\ pp_strength' = Some(ProviderStrength(Val(grid_point),
                                                      Size(band_indices)))
       /\ pp_strength' # None =>
              pp_strength' = Some(ProviderStrength(Val(pp_gp'),
                                                   Size(band_indices)))]_vars

\* set_grid_point(1) right after a completed run for grid point 0 dropped
\* the strength that run had cached
C6_Witness ==
    /\ last_call = <<"set_grid_point", "ok">>
    /\ grid_point = Some(1)
    /\ collision_matrix # None
    /\ Len(trace) > 0 /\ trace[1] = "run_interaction"
    /\ pp_strength = None

\* C7 as stated: after set_grid_point(None) no grid point is bound and no
\* scattering strength is cached.
C7_SetNoneClearsStrength ==
    last_call = <<"set_grid_point_none", "ok">> =>
        /\ grid_point = None
        /\ pp_strength = None

\* C7: set_grid_point(None) leaves the assembler without a bound grid point
\* and leaves the cached scattering strength as it was.
C7_SetNoneKeepsStrength ==
    [][last_call' = <<"set_grid_point_none", "ok">> =>
           /\ grid_point' = None
           /\ pp_strength' = pp_strength]_vars

\* set_grid_point(None) after a run: the strength of that run is still cached
C7_Witness ==
    /\ last_call = <<"set_grid_point_none", "ok">>
    /\ grid_point = None
    /\ pp_strength # None

\* the matrix one run alone leaves: the contributions of the bound grid
\* point's triplets, nothing else
ExpectedMatrix ==
    LET expected == ExpectedCollision
    IN [idx \in DOMAIN CMatrix.data |->
           IF temperature <= 0 THEN 0
           ELSE IF is_reducible_collision_matrix
           THEN expected[<<idx[2], idx[1], idx[3]>>]
           ELSE SumVec([z \in DOMAIN Val(rot_grid_points)[idx[3]] |->
                    expected[<<Val(rot_grid_points)[idx[3]][z], idx[1], idx[4]>>]
                    * Val(rotations_cartesian)[z][<<idx[2], idx[5]>>]])]

\* C8: after a completed run() the whole matrix is what this run alone
\* adds to an all-zero matrix; nothing of an earlier run() or of an earlier
\* bound grid point is left in it.
C8_FreshMatrixEachRun ==
    RunCompleted => CMatrix.data = ExpectedMatrix

\* a completed reference run that found the strength cached and the matrix
\* of an earlier run in place, and left entries that are not zero
C8_Witness ==
    /\ RunCompleted /\ temperature > 0 /\ lang = "Py"
    /\ trace[1] # "run_interaction"
    /\ \E idx \in DOMAIN CMatrix.data : CMatrix.data[idx] # 0

\* C9: the matrix run() allocates has shape (num_band0, product of the mesh
\* dimensions, num_band) with the reducible flag and (num_band0, 3, number
\* of irreducible grid points, num_band, 3) without it, num_band0 and
\* num_band being axes 1 and 2 (counted from 0) of the strength tensor.
C9_MatrixShape ==
    (last_call[1] = "run" /\ collision_matrix # None) =>
        /\ pp_strength # None
        /\ CMatrix.shape =
               IF is_reducible_collision_matrix
               THEN <<Strength.shape[2], Prod(mesh), Strength.shape[3]>>
               ELSE <<Strength.shape[2], 3, Size(Val(ir_grid_points)),
                      Strength.shape[3], 3>>
        /\ DOMAIN CMatrix.data = IndexTuples(CMatrix.shape)

\* a completed run of the reducible variant with fewer band indices than
\* bands, on a mesh of more than one dimension
C9_Witness ==
    /\ RunCompleted /\ is_reducible_collision_matrix
    /\ Strength.shape[2] < Strength.shape[3]
    /\ Prod(mesh) > mesh[1]
    /\ Len(CMatrix.shape) = 3

\* C10: whatever the order in which the positions of the loops of a
\* reference routine are visited, the matrix of the completed run is the
\* one the routine leaves with its own order of visits.
C10_OrderIndependent ==
    (RunCompleted /\ AssemblyRoutine \in PyRoutines) =>
        CMatrix.data
            = Assemble(AssemblyRoutine, Zeros(CMatrix.shape), Strength).data

\* a completed run that visited a position out of the routine's order and
\* left entries that are not zero
C10_Witness ==
    /\ RunCompleted /\ AssemblyRoutine \in PyRoutines
    /\ out_of_order
    /\ \E idx \in DOMAIN CMatrix.data : CMatrix.data[idx] # 0

AllZero(matrix) == \A idx \in DOMAIN matrix.data : matrix.data[idx] = 0

\* the matrix run() leaves for the same binding and inputs with the
\* reducible flag set
ReducibleCounterpart ==
    LET zero == Zeros(<<Strength.shape[2], Prod(mesh), Strength.shape[3]>>)
    IN IF temperature <= 0 THEN zero.data
       ELSE IF lang = "C" THEN RunCReducibleCollisionMatrix(zero, Strength).data
       ELSE RunPyReducibleCollisionMatrix(zero, Strength).data

\* C11: for the same binding and inputs, every 3x3 block
\* matrix_irr[j, :, i, k, :] of the irreducible form is the sum over the
\* images r_gp of irreducible point i, with their rotations r, of
\* matrix_red[j, r_gp, k] * r.
C11_IrreducibleFromReducible ==
    (RunCompleted /\ ~is_reducible_collision_matrix) =>
        LET red == ReducibleCounterpart
        IN \A idx \in DOMAIN CMatrix.data :
               CMatrix.data[idx]
               = SumVec([z \in DOMAIN Val(rot_grid_points)[idx[3]] |->
                     red[<<idx[1], Val(rot_grid_points)[idx[3]][z], idx[4]>>]
                     * Val(rotations_cartesian)[z][<<idx[2], idx[5]>>]])

\* a completed reference run of the irreducible form whose reducible
\* counterpart differs between the two images of an irreducible point
C11_Witness ==
    /\ RunCompleted /\ ~is_reducible_collision_matrix /\ temperature > 0
    /\ lang = "Py"
    /\ \E i \in DOMAIN Val(ir_grid_points) :
          \E j \in Range(Strength.shape[2]), k \in Range(Strength.shape[3]) :
              /\ ReducibleCounterpart[<<j, Val(rot_grid_points)[i][0], k>>]
                 # ReducibleCounterpart[<<j, Val(rot_grid_points)[i][1], k>>]
              /\ CMatrix.data[<<j, 1, i, k, 0>>] # 0

\* C12: two run() calls in succession at temperature 0 both leave an
\* all-zero collision matrix.
C12_ZeroTemperatureTwice ==
    [][(RunCompleted /\ RunCompleted' /\ temperature = 0) =>
           /\ AllZero(Val(collision_matrix))
           /\ AllZero(Val(collision_matrix'))]_vars

\* the second of two completed runs at temperature 0: the strength was
\* cached, the self-energy is not zero and the matrix is
C12_Witness ==
    /\ RunCompleted /\ temperature = 0
    /\ trace = <<"_run_with_band_indices", "_run_with_band_indices">>
    /\ \E j \in DOMAIN Val(imag_self_energy) : Val(imag_self_energy)[j] # 0
    /\ AllZero(CMatrix)

C14_ShapesAgreeBeforeRun ==
    (last_call[1] = "run" /\ pp_strength # None /\ g # None) =>
        Val(g).shape = <<3>> \o Strength.shape

\* the matrix the routine of the other path leaves for the same inputs
OtherPathMatrix ==
    LET zero == Zeros(CMatrix.shape)
    IN IF temperature <= 0 THEN zero.data
       ELSE IF lang = "C"
       THEN IF is_reducible_collision_matrix
            THEN RunPyReducibleCollisionMatrix(zero, Strength).data
            ELSE RunPyCollisionMatrix(zero, Strength).data
       ELSE IF is_reducible_collision_matrix
            THEN RunCReducibleCollisionMatrix(zero, Strength).data
            ELSE RunCCollisionMatrix(zero, Strength).data

\* C15: with identical inputs and the same reducible flag, a completed
\* run() on the accelerated path and one on the reference path leave the
\* same collision matrix.
C15_PathsAgree ==
    RunCompleted => CMatrix.data = OtherPathMatrix

\* a completed accelerated run whose matrix is not zero
C15_Witness ==
    /\ RunCompleted /\ lang = "C" /\ temperature > 0
    /\ ~AllZero(CMatrix)

\* ------------------------------------------------- the claims on load()
\* load() has returned or raised
LoadDone == load_result # None
LoadArgs == Val(load_args)
LoadResult == Val(load_result)
\* load() returned an instance
LoadReturned == LoadDone /\ LoadResult.status = "ok"
Returned == Val(LoadResult.ph3py)

\* the sources of fc3 in the order of their priority, and the available ones
Fc3Sources == <<"fc3_filename", "forces_fc3_filename", "fc3.hdf5",
                "FORCES_FC3">>
Fc3Available(args) ==
    {i \in DOMAIN Fc3Sources :
        \/ Fc3Sources[i] \in args.given
        \/ i = 2 /\ "forces_fc3_filename+disp" \in args.given}
HighestFc3Source(args) ==
    Fc3Sources[CHOOSE i \in Fc3Available(args) :
                  \A other \in Fc3Available(args) : i <= other]

\* C16: when force constants are produced and a source of fc3 is available,
\* the fc3 of the returned instance comes from the available source of
\* highest priority (fc3_filename, forces_fc3_filename, 'fc3.hdf5',
\* 'FORCES_FC3') and from no other.
C16_Fc3FromHighestSource ==
    (LoadReturned /\ LoadArgs.produce_fc /\ Fc3Available(LoadArgs) # {}) =>
        /\ Returned.fc3 # None
        /\ Val(Returned.fc3).of = HighestFc3Source(LoadArgs)

\* the yaml is the structure source in use
YamlInUse(args) ==
    args.structure \cap CellArgs = {} /\ "phono3py_yaml" \in args.structure

\* the NAC parameters of the first available source in the documented order
FirstNacSource(args) ==
    IF "born_filename" \in args.given THEN Some("born_filename")
    ELSE IF "nac_params" \in args.given THEN Some("nac_params")
    ELSE IF YamlInUse(args) /\ args.yaml.nac_params # None /\ args.is_nac
    THEN args.yaml.nac_params
    ELSE IF args.is_nac /\ IsFile(args, "BORN") THEN Some("BORN")
    ELSE None

\* C17: the NAC parameters of the returned instance are those of the first
\* available source in the order born_filename, nac_params, nac_params of
\* the yaml when is_nac, 'BORN' when is_nac; the yaml's parameters are set
\* whether or not a 'BORN' file exists.
C17_NacFromFirstSource ==
    LoadReturned => Returned.nac_params = FirstNacSource(LoadArgs)

\* set_dataset_and_force_constants was called: load() got past the
\* structure arguments
SetDatasetCalled == LoadDone /\ CellSettings(LoadArgs).status = "ok"

\* no source of fc2 is given or found, and 'FORCES_FC3' exists
OnlyForcesFc3ForFc2(args) ==
    /\ args.given \cap {"fc2_filename", "forces_fc2_filename",
                        "forces_fc2_filename+disp", "fc2.hdf5",
                        "FORCES_FC2"} = {}
    /\ IsFile(args, "FORCES_FC3")

\* C18: with no fc2_filename, no forces_fc2_filename, no 'fc2.hdf5' and no
\* 'FORCES_FC2', but with 'FORCES_FC3' in the current directory,
\* set_dataset_and_force_constants creates fc2 from 'FORCES_FC3'.
C18_Fc2FromForcesFc3 ==
    (SetDatasetCalled /\ OnlyForcesFc3ForFc2(LoadArgs)) =>
        /\ LoadReturned
        /\ Returned.fc2 # None
        /\ Val(Returned.fc2).of = "FORCES_FC3"

\* C19: whenever phonon_supercell_matrix is given and neither unitcell nor
\* unitcell_filename is, load() raises an error, whichever other structure
\* source (supercell, supercell_filename or phono3py_yaml) is supplied.
C19_PhononSupercellMatrixNeedsUnitcell ==
    (/\ LoadDone
     /\ LoadArgs.phonon_supercell_matrix
     /\ LoadArgs.structure \cap {"unitcell", "unitcell_filename"} = {}) =>
        LoadResult.status # "ok"

\* the calls of the given names that set_dataset_and_force_constants made
LoadCalls(names) ==
    {i \in DOMAIN LoadResult.log : LoadResult.log[i][1] \in names}

\* the field of the instance a parse_forces call of this fc_type fills
StoredDataset(fc_type) ==
    IF fc_type = "phonon_fc2" THEN Returned.phonon_dataset
    ELSE Returned.dataset

\* C20: with produce_fc=False, neither produce_fc3 nor produce_fc2 is called,
\* and each dataset that was parsed, displacements with forces, is on the
\* returned instance.
C20_ParsedDatasetKeptWithoutProducing ==
    (LoadReturned /\ ~LoadArgs.produce_fc) =>
        /\ LoadCalls({"produce_fc3", "produce_fc2"}) = {}
        /\ \A i \in LoadCalls({"parse_forces"}) :
               LET stored == StoredDataset(LoadResult.log[i][2])
               IN stored # None /\ forces_in_dataset(Val(stored))

\* ------------------------------------- the claims on the assembly, continued
\* the mesh points whose representative triplet _get_inv_sinh can look up
LookedUp ==
    {gp \in DOMAIN Val(triplets_map_at_q) :
        Val(triplets_map_at_q)[gp] \in DOMAIN GetGp2tpMap}

\* sinh(freq * THzToEv / (2 * Kb * T)) of one band of the companion of gp
CompanionSinh(gp, b) ==
    Sinh(Quot(Val(frequencies)[CompanionGridPoint(gp, GetGp2tpMap)][b]
              * THzToEv,
              2 * Kb * temperature))

\* C21: for a band of the companion mode whose frequency exceeds the cutoff,
\* _get_inv_sinh returns 1/sinh(freq * THzToEv / (2 * Kb * T)) when that
\* sinh is strictly positive and exactly 0 otherwise; every entry of the
\* occupation vector is non-negative and finite.
C21_InvSinhEntries ==
    frequencies # None =>
        \A gp \in LookedUp :
            LET inv_sinh == GetInvSinh(gp, GetGp2tpMap)
                freqs == Val(frequencies)[CompanionGridPoint(gp, GetGp2tpMap)]
            IN \A b \in DOMAIN inv_sinh :
                   /\ freqs[b] > cutoff_frequency =>
                          inv_sinh[b] = IF CompanionSinh(gp, b) > 0
                                        THEN Recip(CompanionSinh(gp, b))
                                        ELSE 0
                   /\ inv_sinh[b] >= 0
                   /\ inv_sinh[b] < Inf

\* a completed reference run in which a band above the cutoff has a positive
\* reciprocal and a band above the cutoff has sinh = 0 and the entry 0
C21_Witness ==
    /\ RunCompleted /\ lang = "Py" /\ temperature > 0
    /\ \E gp \in LookedUp :
           \E b \in DOMAIN GetInvSinh(gp, GetGp2tpMap) :
               /\ Val(frequencies)[CompanionGridPoint(gp, GetGp2tpMap)][b]
                  > cutoff_frequency
               /\ GetInvSinh(gp, GetGp2tpMap)[b] > 0
    /\ \E gp \in LookedUp :
           \E b \in DOMAIN GetInvSinh(gp, GetGp2tpMap) :
               /\ Val(frequencies)[CompanionGridPoint(gp, GetGp2tpMap)][b]
                  > cutoff_frequency
               /\ CompanionSinh(gp, b) = 0
               /\ GetInvSinh(gp, GetGp2tpMap)[b] = 0

\* the representative triplet of mesh point gp
RepresentativeTriplet(gp) == Val(triplets_at_q)[RepresentativeIndex(gp)]

\* the member of the triplet the claim names: the third when the two maps
\* agree at gp, the second otherwise
NamedMember(gp) ==
    IF Val(triplets_map_at_q)[gp] = Val(ir_map_at_q)[gp]
    THEN RepresentativeTriplet(gp)[2]
    ELSE RepresentativeTriplet(gp)[1]

\* C22: the companion mode of grid point gp is the third member of gp's
\* representative triplet exactly when the triplet-map value of gp equals its
\* irreducible-map value, and the second member otherwise; the occupation
\* vector is that of the frequencies of this member, never of the first.
C22_CompanionMember ==
    frequencies # None =>
        \A gp \in LookedUp :
            /\ CompanionGridPoint(gp, GetGp2tpMap) = NamedMember(gp)
            /\ GetInvSinh(gp, GetGp2tpMap)
               = InvertPositive(SinhOrSentinel(
                     Val(frequencies)[NamedMember(gp)]))

\* a completed reference run that met both cases at mesh points whose
\* triplet has three different members
C22_Witness ==
    /\ RunCompleted /\ lang = "Py" /\ temperature > 0
    /\ \E gp \in LookedUp :
           /\ Val(triplets_map_at_q)[gp] = Val(ir_map_at_q)[gp]
           /\ Cardinality({RepresentativeTriplet(gp)[c] : c \in Range(3)}) = 3
           /\ CompanionGridPoint(gp, GetGp2tpMap) = RepresentativeTriplet(gp)[2]
    /\ \E gp \in LookedUp :
           /\ Val(triplets_map_at_q)[gp] # Val(ir_map_at_q)[gp]
           /\ Cardinality({RepresentativeTriplet(gp)[c] : c \in Range(3)}) = 3
           /\ CompanionGridPoint(gp, GetGp2tpMap) = RepresentativeTriplet(gp)[1]

\* the grid points i with triplet_map[i] == i
FixedPoints == {i \in DOMAIN Val(triplets_map_at_q) :
                   Val(triplets_map_at_q)[i] = i}

\* C23: the keys of _get_gp2tp_map are exactly the grid points i with
\* triplet_map[i] == i, and each is mapped to the number of such points
\* below it: in increasing order, one-to-one onto 0..count-1.
C23_DenseRepresentativeMap ==
    triplets_map_at_q # None =>
        /\ DOMAIN GetGp2tpMap = FixedPoints
        /\ \A i \in FixedPoints :
               GetGp2tpMap[i] = Cardinality({m \in FixedPoints : m < i})
        /\ {GetGp2tpMap[i] : i \in FixedPoints}
           = Range(Cardinality(FixedPoints))

\* a completed reference run on a map in which a point that is not a
\* representative comes before a representative
C23_Witness ==
    /\ RunCompleted /\ lang = "Py" /\ temperature > 0
    /\ \E i \in FixedPoints :
           /\ \E m \in DOMAIN Val(triplets_map_at_q) :
                  m < i /\ m \notin FixedPoints
           /\ GetGp2tpMap[i] < i

\* the scattering-strength computations the last run() invoked
Computations == {n \in DOMAIN trace : trace[n] = "run_interaction"}

\* C24: run() invokes the scattering-strength computation exactly when no
\* strength is cached, once, and leaves the strength cached; each
\* set_grid_point(index) drops it.  Consecutive run() calls after one
\* set_grid_point(index) thus compute once, and each set_grid_point(index)
\* causes one more computation on the following run().
C24_StrengthOncePerBinding ==
    [][/\ last_call'[1] = "run" =>
              /\ Cardinality(Computations')
                 = IF pp_strength = None THEN 1 ELSE 0
              /\ pp_gp # None => pp_strength' # None
       /\ last_call'[1] = "set_grid_point" => pp_strength' = None]_vars

\* a completed run() that computed nothing, since the strength was cached
C24_Witness ==
    /\ RunCompleted /\ temperature > 0
    /\ pp_strength # None
    /\ Computations = {}

\* every value of the triplet map is itself a fixed point of the map
WellFormedTripletMap ==
    \A gp \in DOMAIN Val(triplets_map_at_q) :
        Val(triplets_map_at_q)[gp] \in FixedPoints

\* the grid points the assembly looks up: every mesh point in the reducible
\* variant, every rotated image in the irreducible one
AssemblyGridPoints ==
    IF is_reducible_collision_matrix THEN Range(Prod(mesh))
    ELSE {Val(rot_grid_points)[i][z] :
              i \in DOMAIN Val(ir_grid_points),
              z \in DOMAIN Val(rotations_cartesian)}

\* C25: when every value of the triplet map is a fixed point of the map, the
\* lookup gp2tp_map[triplet_map[gp]] succeeds for every grid point the
\* assembly looks up and yields an index below the number of stored
\* triplets, and a run() that reached an assembly routine did not fail.
C25_LookupsSucceed ==
    (triplets_map_at_q # None /\ WellFormedTripletMap) =>
        /\ \A gp \in AssemblyGridPoints :
               /\ Val(triplets_map_at_q)[gp] \in DOMAIN GetGp2tpMap
               /\ GetGp2tpMap[Val(triplets_map_at_q)[gp]]
                  \in Range(Size(Val(triplets_at_q)))
        /\ (last_call[1] = "run" /\ Invoked(AssemblyRoutines) # {}) =>
               last_call[2] = "ok"

\* a completed reference run on a well-formed map that sends some mesh point
\* to another one
C25_Witness ==
    /\ RunCompleted /\ lang = "Py" /\ temperature > 0
    /\ WellFormedTripletMap
    /\ \E gp \in AssemblyGridPoints : Val(triplets_map_at_q)[gp] # gp

\* the calls of the last run() to routines of the given names
CallsOf(names) == {n \in DOMAIN trace : trace[n] \in names}

\* the routine for a pair (lang == 'C', reducible flag)
RoutineFor ==
    [accelerated \in BOOLEAN, reducible \in BOOLEAN |->
        IF accelerated /\ reducible THEN "_run_c_reducible_collision_matrix"
        ELSE IF accelerated THEN "_run_c_collision_matrix"
        ELSE IF reducible THEN "_run_py_reducible_collision_matrix"
        ELSE "_run_py_collision_matrix"]

\* C26: a run() that gets to _run_collision_matrix invokes, with
\* temperature > 0, exactly one of the four assembly routines, the one of the
\* pair (lang == 'C', reducible flag), and with temperature <= 0 none.
C26_OneRoutinePerRun ==
    (/\ last_call[1] = "run"
     /\ Cardinality(CallsOf({"_run_with_band_indices"})) = 2) =>
        IF temperature > 0
        THEN /\ Cardinality(CallsOf(AssemblyRoutines)) = 1
             /\ Invoked(AssemblyRoutines)
                = {RoutineFor[lang = "C", is_reducible_collision_matrix]}
        ELSE CallsOf(AssemblyRoutines) = {}

\* a completed run() of the reference routine of the irreducible variant
C26_Witness ==
    /\ RunCompleted /\ temperature > 0
    /\ lang = "Py" /\ ~is_reducible_collision_matrix
    /\ Invoked(AssemblyRoutines) = {"_run_py_collision_matrix"}

\* ------------------------------------------- the claims on parse_forces
ParseArgs == Val(parse_args)
ParseResult == Val(parse_result)
ParseReturned == parse_result # None /\ ParseResult.status = "ok"
ReturnedDataset == Val(ParseResult.dataset)
\* the data of the yaml the returned dataset was taken from, if it was
FromYaml == ReturnedDataset.origin \in {"phono3py_yaml:dataset", "phono3py_yaml:phonon_dataset"}
YamlSource ==
    IF ReturnedDataset.origin = "phono3py_yaml:dataset"
    THEN Val(Val(parse_yaml).yaml_data.dataset)
    ELSE Val(Val(parse_yaml).yaml_data.phonon_dataset)
\* the cutoff distance the selected dataset stored before the call
StoredCutoff == IF FromYaml THEN YamlSource[4] ELSE None

\* C27: a given cutoff_pair_distance replaces the dataset's cutoff distance
\* only when the dataset stores none or the given one is strictly smaller;
\* a stored cutoff distance is never increased, and the cutoff distance is
\* left as it was when no cutoff_pair_distance is given
C27_CutoffOnlyLowered ==
    ParseReturned =>
        /\ ReturnedDataset.cutoff_distance # StoredCutoff =>
               /\ ParseArgs.cutoff_pair_distance # None
               /\ ReturnedDataset.cutoff_distance = ParseArgs.cutoff_pair_distance
               /\ \/ StoredCutoff = None
                  \/ Val(ParseArgs.cutoff_pair_distance) < Val(StoredCutoff)
        /\ StoredCutoff # None =>
               /\ ReturnedDataset.cutoff_distance # None
               /\ Val(ReturnedDataset.cutoff_distance) <= Val(StoredCutoff)
        /\ ParseArgs.cutoff_pair_distance = None =>
               ReturnedDataset.cutoff_distance = StoredCutoff
        /\ (/\ ParseArgs.cutoff_pair_distance # None
            /\ Val(ParseArgs.cutoff_pair_distance) # 0
            /\ \/ StoredCutoff = None
               \/ Val(ParseArgs.cutoff_pair_distance) < Val(StoredCutoff)) =>
               ReturnedDataset.cutoff_distance = ParseArgs.cutoff_pair_distance

\* a stored cutoff distance was lowered to the given one
C27_Witness ==
    /\ ParseReturned
    /\ StoredCutoff = Some(MaxCutoff)
    /\ ParseArgs.cutoff_pair_distance = Some(1)
    /\ ReturnedDataset.cutoff_distance = Some(1)
    /\ ReturnedDataset.forces # None

\* the factors of the calculator of the instance, one where it has none
DistanceFactor ==
    IF GetDefaultPhysicalUnits(Val(parse_phono3py).calculator).distance_to_A = None
    THEN 1
    ELSE Val(GetDefaultPhysicalUnits(Val(parse_phono3py).calculator).distance_to_A)
ForceFactor ==
    IF GetDefaultPhysicalUnits(Val(parse_phono3py).calculator).force_to_eVperA = None
    THEN 1
    ELSE Val(GetDefaultPhysicalUnits(Val(parse_phono3py).calculator).force_to_eVperA)

\* C28: a call of parse_forces leaves the Phono3pyYaml object as it was,
\* and every call that returns the dataset of the yaml, the first and the
\* repeated ones, returns the displacements and the forces of the yaml data
\* times the unit factors, once
C28_ConvertedOnce ==
    [][parse_calls' = parse_calls + 1 =>
          /\ parse_yaml' = parse_yaml
          /\ (ParseReturned' /\ FromYaml') =>
                 /\ ReturnedDataset'.displacement = YamlSource'[2] * DistanceFactor'
                 /\ YamlSource'[3] # None =>
                        ReturnedDataset'.forces
                            = Some(Val(YamlSource'[3]) * ForceFactor')]_vars

\* a repeated call returned the dataset of the yaml converted, with
\* factors other than one, and the yaml still holds the unconverted one
C28_Witness ==
    /\ parse_calls = MaxCalls
    /\ ParseReturned
    /\ ReturnedDataset.origin = "phono3py_yaml:dataset"
    /\ DistanceFactor > 1
    /\ ForceFactor > 1
    /\ YamlSource[3] # None
    /\ ReturnedDataset.displacement = YamlSource[2] * DistanceFactor
    /\ ReturnedDataset.forces = Some(Val(YamlSource[3]) * ForceFactor)
    /\ Val(Val(parse_yaml).dataset).displacement = YamlSource[2]
    /\ Val(Val(parse_yaml).dataset).forces = YamlSource[3]

\* the number of atoms of the supercell the call is about
RelevantNatom == Natom(Val(parse_phono3py), ParseArgs.fc_type)
\* the dataset of a forces file of type 2, when there is one
Type2Dataset ==
    GetType2Dataset(Val(parse_phono3py), RelevantNatom,
                    Val(ParseArgs.force_filename))
\* the dataset of the yaml, when it holds one for the fc_type
Extracted == ExtractDatasetFromPh3pyYaml(parse_yaml, ParseArgs.fc_type)
\* the dataset selected by lines 191-214, before it is checked
SelectedDataset ==
    IF Extracted # None /\ (forces_in_dataset(Val(Extracted)) \/ Type2Dataset = None)
    THEN Extracted
    ELSE IF Type2Dataset # None THEN Type2Dataset
    ELSE IF ParseArgs.disp_filename # None
    THEN Some(ReadDispFcYaml(Val(ParseArgs.disp_filename)))
    ELSE None
NatomMismatch ==
    /\ SelectedDataset # None
    /\ Val(SelectedDataset).natom # None
    /\ Val(Val(SelectedDataset).natom) # RelevantNatom

\* C29: a call whose selected dataset declares a number of atoms other
\* than that of the relevant supercell raises RuntimeError and returns no
\* dataset, whether or not the dataset has forces and whether or not the
\* forces file exists: no forces file is read into the dataset first;
\* and no other call raises RuntimeError
C29_NatomChecked ==
    parse_result # None =>
        /\ NatomMismatch =>
               /\ ParseResult.status = "RuntimeError"
               /\ ParseResult.dataset = None
        /\ ParseResult.status = "RuntimeError" => NatomMismatch

\* a dataset without forces of the wrong size for the phonon supercell is
\* refused although the forces file it would need is missing
C29_Witness ==
    /\ parse_result # None
    /\ ParseResult.status = "RuntimeError"
    /\ ParseArgs.fc_type = "phonon_fc2"
    /\ Val(parse_phono3py).phonon_natom # Val(parse_phono3py).natom
    /\ Val(Val(SelectedDataset).natom) = Val(parse_phono3py).natom
    /\ ~forces_in_dataset(Val(SelectedDataset))
    /\ ~IsFile(Val(parse_phono3py), Val(ParseArgs.force_filename))
====
